---- MODULE Spec2Model ----
(***************************************************************************)
(* A model of the front-end pipeline of PythonCompiler:                    *)
(*   - Lexer.tokenize            (src/lexer/lexer.py)                      *)
(*   - Parser.parse              (src/parser/parser.py)                    *)
(*   - IRGenerator               (src/intermediate/ir_generator.py)        *)
(* Python objects are records tagged with the name of their class in the   *)
(* field "kind"; a Python list is a sequence; a Python str held in an IR   *)
(* field is the record Str(s); None is NoneV.  An exception that leaves a  *)
(* call is the record Raise(exc).                                          *)
(***************************************************************************)
EXTENDS Integers, Sequences, FiniteSets, TLC

VARIABLES
    \* ---- Lexer (src/lexer/lexer.py)
    source,              \* Lexer.source, a sequence of one-character strings
    position,            \* Lexer.position (0-based)
    indentation_levels,  \* Lexer.indentation_levels
    at_line_start,       \* Lexer.at_line_start
    tokens,              \* the local list `tokens` of Lexer.tokenize
    lex_pc,              \* where tokenize is: "loop", "eof", "done", "raised", "idle"
    \* ---- IRGenerator (src/intermediate/ir_generator.py)
    ast,                 \* node.statements handed to visit_ProgramNode
    node_statements,     \* node.statements as the visits so far have left it
    stmt_index,          \* number of statements the for loop has visited
    functions,           \* local list `functions` of visit_ProgramNode
    main_body,           \* local list `main_body` of visit_ProgramNode
    temp_counter,        \* IRGenerator.temp_counter
    label_counter,       \* IRGenerator.label_counter
    current_function,    \* IRGenerator.current_function
    current_class,       \* IRGenerator.current_class
    temps_issued,        \* every name generate_temp has returned, in order
    labels_issued,       \* every name generate_label has returned, in order
    program,             \* what visit_ProgramNode returned (NoneV before)
    ir_pc,               \* "loop", "returned", "raised", "idle"
    \* ---- Parser (src/parser/parser.py)
    parser_tokens,       \* Parser.tokens
    parser_current,      \* Parser.current (0-based)
    ast_nodes,           \* the local list `ast_nodes` of Parser.parse
    errors_printed,      \* number of "Error: ..." lines Parser.parse has printed
    parse_pc             \* "loop", "returned", "idle"

lexVars == <<source, position, indentation_levels, at_line_start, tokens, lex_pc>>
irVars  == <<ast, node_statements, stmt_index, functions, main_body, temp_counter, label_counter,
             current_function, current_class, temps_issued, labels_issued,
             program, ir_pc>>
parseVars == <<parser_tokens, parser_current, ast_nodes, errors_printed, parse_pc>>
vars == <<lexVars, irVars, parseVars>>

(***************************************************************************)
(* Bounds of the model.                                                    *)
(***************************************************************************)
MaxLen == 5      \* longest source text the lexer is run on
MaxStmts == 3    \* most top-level statements of a program
MaxNodes == 3    \* most operator/call nodes of a generated expression
MaxStrLen == 4   \* longest source text made of string-literal characters
MaxLines == 3    \* most lines of a source text made of indented lines
MaxIndent == 3   \* widest indentation of such a line
MaxOperands == 3 \* most operands of an expression the parser is run on
MaxPrefixes == 1 \* most prefix operators of such an expression
MaxElifs == 3    \* most elif clauses of an if chain
MaxArgs == 3     \* most arguments of a call the parser is run on
MaxTokens == 3   \* most tokens before END of a token list of any shape
MaxBlankLines == 1 \* most blank lines between a block header and its body
MaxDocLen == 2   \* longest text inside and after a triple-quoted string

(***************************************************************************)
(* Python values                                                           *)
(***************************************************************************)
NoneV == [kind |-> "None"]
Str(s) == [kind |-> "str", s |-> s]
Raise(exc) == [kind |-> "Raise", exc |-> exc]
IsRaise(v) == v.kind = "Raise"
PyList(items) == [kind |-> "list", items |-> items]

(***************************************************************************)
(* LEXER                                                                   *)
(***************************************************************************)
NUL == "NUL"     \* the '\0' that peek returns at the end of the source

\* The characters the lexer is run on: space, tab, newline, comment start,
\* a letter and a punctuation character.
Alphabet == {" ", "\t", "\n", "#", "a", ":"}

isspace(c) == c \in {" ", "\t", "\n", "\r"}
isalpha(c) == c \in {"a", "f"}
isalnum(c) == c \in {"a", "f"}

\* The characters the string literals are made of: the prefix letter, the
\* quote, a letter, the backslash and the newline
StrAlphabet == {"f", "\"", "a", "\\", "\n"}

Token(type, value) == [type |-> type, value |-> value]

\* Lexer.peek with the cursor at pos
peek(src, pos) == IF pos >= Len(src) THEN NUL ELSE src[pos + 1]

\* handle_indentation, lines 85-91: the cursor and the width after the
\* leading spaces (1 each) and tabs (4 each)
RECURSIVE count_indent(_, _, _)
count_indent(src, pos, current_indent) ==
    IF peek(src, pos) = " " THEN count_indent(src, pos + 1, current_indent + 1)
    ELSE IF peek(src, pos) = "\t" THEN count_indent(src, pos + 1, current_indent + 4)
    ELSE [position |-> pos, current_indent |-> current_indent]

\* handle_indentation, lines 106-108: pop while current_indent is below
\* the top, one DEDENT per pop
\* The loop of lines 106-108 leaving after its first turn
dedent_loop_once(levels, current_indent, toks) ==
    [levels |-> SubSeq(levels, 1, Len(levels) - 1),
     tokens |-> Append(toks, Token("DEDENT", ""))]

RECURSIVE dedent_loop(_, _, _)
dedent_loop(levels, current_indent, toks) ==
    IF current_indent < levels[Len(levels)]
    THEN dedent_loop(SubSeq(levels, 1, Len(levels) - 1), current_indent,
                     Append(toks, Token("DEDENT", "")))
    ELSE [levels |-> levels, tokens |-> toks]

\* handle_indentation with the push of line 102 left out: INDENT is emitted
\* and the stack keeps its depth
handle_indentation_no_push(src, pos, levels) ==
    LET c == count_indent(src, pos, 0)
        current_indent == c.current_indent
        previous_indent == levels[Len(levels)]
        d == dedent_loop(levels, current_indent, <<>>)
    IN  IF peek(src, c.position) \in {"\n", "#", NUL}
        THEN [position |-> c.position, levels |-> levels, tokens |-> <<>>,
              at_line_start |-> TRUE, raised |-> FALSE]
        ELSE IF current_indent > previous_indent
        THEN [position |-> c.position, levels |-> levels,
              tokens |-> <<Token("INDENT", "")>>,
              at_line_start |-> FALSE, raised |-> FALSE]
        ELSE IF current_indent < previous_indent
        THEN [position |-> c.position, levels |-> d.levels, tokens |-> d.tokens,
              at_line_start |-> FALSE,
              raised |-> current_indent # d.levels[Len(d.levels)]]
        ELSE [position |-> c.position, levels |-> levels, tokens |-> <<>>,
              at_line_start |-> FALSE, raised |-> FALSE]

\* handle_indentation pushing also when the width equals the top of the
\* stack (the test of line 101 read as >=)
handle_indentation_push_equal(src, pos, levels) ==
    LET c == count_indent(src, pos, 0)
        current_indent == c.current_indent
        previous_indent == levels[Len(levels)]
        d == dedent_loop(levels, current_indent, <<>>)
    IN  IF peek(src, c.position) \in {"\n", "#", NUL}
        THEN [position |-> c.position, levels |-> levels, tokens |-> <<>>,
              at_line_start |-> TRUE, raised |-> FALSE]
        ELSE IF current_indent >= previous_indent
        THEN [position |-> c.position, levels |-> Append(levels, current_indent),
              tokens |-> <<Token("INDENT", "")>>,
              at_line_start |-> FALSE, raised |-> FALSE]
        ELSE [position |-> c.position, levels |-> d.levels, tokens |-> d.tokens,
              at_line_start |-> FALSE,
              raised |-> current_indent # d.levels[Len(d.levels)]]

\* Lexer.handle_indentation: the lexer fields after the call, the tokens it
\* returns and whether it raised SyntaxError
handle_indentation(src, pos, levels) ==
    LET c == count_indent(src, pos, 0)
        current_indent == c.current_indent
        previous_indent == levels[Len(levels)]
        d == dedent_loop(levels, current_indent, <<>>)
    IN  IF peek(src, c.position) \in {"\n", "#", NUL}
        THEN [position |-> c.position, levels |-> levels, tokens |-> <<>>,
              at_line_start |-> TRUE, raised |-> FALSE]
        ELSE IF current_indent > previous_indent
        THEN [position |-> c.position, levels |-> Append(levels, current_indent),
              tokens |-> <<Token("INDENT", "")>>,
              at_line_start |-> FALSE, raised |-> FALSE]
        ELSE IF current_indent < previous_indent
        THEN [position |-> c.position, levels |-> d.levels, tokens |-> d.tokens,
              at_line_start |-> FALSE,
              raised |-> current_indent # d.levels[Len(d.levels)]]
        ELSE [position |-> c.position, levels |-> levels, tokens |-> <<>>,
              at_line_start |-> FALSE, raised |-> FALSE]

\* tokenize, lines 266-268: the lexer fields when the dispatch on the
\* current character starts
line_start(src, pos, levels, als) ==
    IF als THEN handle_indentation(src, pos, levels)
    ELSE [position |-> pos, levels |-> levels, tokens |-> <<>>,
          at_line_start |-> FALSE, raised |-> FALSE]

\* Lexer.skip_comment: the cursor at the next newline or the end
RECURSIVE skip_comment(_, _)
skip_comment(src, pos) ==
    IF peek(src, pos) # "\n" /\ peek(src, pos) # NUL
    THEN skip_comment(src, pos + 1) ELSE pos

\* Lexer.skip_whitespace (called with at_line_start false)
RECURSIVE skip_whitespace(_, _)
skip_whitespace(src, pos) ==
    IF peek(src, pos) # "\n" /\ isspace(peek(src, pos))
    THEN skip_whitespace(src, pos + 1) ELSE pos

\* Lexer.parse_identifier: the cursor after the name, and the name
RECURSIVE parse_identifier(_, _, _)
parse_identifier(src, pos, identifier) ==
    IF isalnum(peek(src, pos)) \/ peek(src, pos) = "_"
    THEN parse_identifier(src, pos + 1, identifier \o peek(src, pos))
    ELSE [position |-> pos, token |-> Token("IDENTIFIER", identifier)]

\* Lexer.peek_next with the cursor at pos
peek_next(src, pos) == IF pos + 1 >= Len(src) THEN NUL ELSE src[pos + 2]

\* Lexer.parse_escape_sequence with the cursor on the backslash: the cursor
\* afterwards and the character, or raised
parse_escape_sequence(src, pos) ==
    LET c == peek(src, pos + 1)
    IN  IF c = "\\" \/ c = "\""
        THEN [position |-> pos + 2, char |-> c, raised |-> FALSE]
        ELSE [position |-> pos + 1, char |-> "", raised |-> TRUE]

\* Lexer.parse_string, lines 225-245: the loop over the characters of the
\* literal; newline tells whether advance has consumed a newline
RECURSIVE string_loop(_, _, _, _, _, _)
string_loop(src, pos, quote, is_triple_quote, string_value, newline) ==
    LET stop == IF ~is_triple_quote
                THEN peek(src, pos) \in {quote, NUL, "\n"}
                ELSE \/ /\ peek(src, pos) = quote /\ peek_next(src, pos) = quote
                        /\ pos + 2 < Len(src) /\ src[pos + 3] = quote
                     \/ peek(src, pos) = NUL
        esc == parse_escape_sequence(src, pos)
    IN  IF stop
        THEN [position |-> pos, value |-> string_value, newline |-> newline,
              raised |-> FALSE]
        ELSE IF peek(src, pos) = "\\"
        THEN IF esc.raised
             THEN [position |-> esc.position, value |-> string_value,
                   newline |-> newline, raised |-> TRUE]
             ELSE string_loop(src, esc.position, quote, is_triple_quote,
                              string_value \o esc.char, newline)
        ELSE string_loop(src, pos + 1, quote, is_triple_quote,
                         string_value \o peek(src, pos),
                         newline \/ peek(src, pos) = "\n")

\* Lexer.parse_string: the cursor afterwards, the token, whether advance
\* has set at_line_start, and whether SyntaxError was raised
parse_string(src, pos) ==
    LET is_f_string == peek(src, pos) \in {"f", "F"}
        open == IF is_f_string THEN pos + 1 ELSE pos
        quote == peek(src, open)
        is_triple_quote == peek(src, open + 1) = quote /\ peek_next(src, open + 1) = quote
        start == IF is_triple_quote THEN open + 3 ELSE open + 1
        body == string_loop(src, start, quote, is_triple_quote, "", FALSE)
        unterminated ==
            \/ peek(src, body.position) = NUL
            \/ ~is_triple_quote /\ peek(src, body.position) = "\n"
    IN  [position |-> IF body.raised \/ unterminated THEN body.position
                      ELSE IF is_triple_quote THEN body.position + 3
                      ELSE body.position + 1,
         token |-> Token("STRING_LITERAL", body.value),
         at_line_start |-> body.newline,
         raised |-> body.raised \/ unterminated]

\* The state of tokenize's loop body once line 271 has read `current`
Here == line_start(source, position, indentation_levels, at_line_start)
current == peek(source, Here.position)
InLoop == lex_pc = "loop" /\ position < Len(source)

\* lines 266-268: handle_indentation raises "Inconsistent indentation"
LexIndentError ==
    /\ InLoop /\ Here.raised
    /\ position' = Here.position
    /\ indentation_levels' = Here.levels
    /\ lex_pc' = "raised"
    /\ UNCHANGED <<source, at_line_start, tokens>>
    /\ UNCHANGED <<irVars, parseVars>>

\* lines 273-274: the line start ran into the end of the source
LexBreak ==
    /\ InLoop /\ ~Here.raised /\ current = NUL
    /\ position' = Here.position
    /\ indentation_levels' = Here.levels
    /\ at_line_start' = Here.at_line_start
    /\ tokens' = tokens \o Here.tokens
    /\ lex_pc' = "eof"
    /\ UNCHANGED source
    /\ UNCHANGED <<irVars, parseVars>>

\* lines 279-281
LexComment ==
    /\ InLoop /\ ~Here.raised /\ current = "#"
    /\ position' = skip_comment(source, Here.position)
    /\ indentation_levels' = Here.levels
    /\ at_line_start' = Here.at_line_start
    /\ tokens' = tokens \o Here.tokens
    /\ UNCHANGED <<source, lex_pc>>
    /\ UNCHANGED <<irVars, parseVars>>

\* lines 284-288
LexNewline ==
    /\ InLoop /\ ~Here.raised /\ current = "\n"
    /\ position' = Here.position + 1
    /\ indentation_levels' = Here.levels
    /\ at_line_start' = TRUE
    /\ tokens' = (tokens \o Here.tokens) \o <<Token("NEWLINE", "\\n")>>
    /\ UNCHANGED <<source, lex_pc>>
    /\ UNCHANGED <<irVars, parseVars>>

\* lines 291-293
LexWhitespace ==
    /\ InLoop /\ ~Here.raised /\ current # "\n" /\ current # "#"
    /\ ~Here.at_line_start /\ isspace(current)
    /\ position' = skip_whitespace(source, Here.position)
    /\ indentation_levels' = Here.levels
    /\ at_line_start' = Here.at_line_start
    /\ tokens' = tokens \o Here.tokens
    /\ UNCHANGED <<source, lex_pc>>
    /\ UNCHANGED <<irVars, parseVars>>

\* lines 307-309
LexIdentifier ==
    /\ InLoop /\ ~Here.raised /\ isalpha(current) /\ ~Here.at_line_start
    /\ LET p == parse_identifier(source, Here.position, "")
       IN  /\ position' = p.position
           /\ tokens' = (tokens \o Here.tokens) \o <<p.token>>
    /\ indentation_levels' = Here.levels
    /\ at_line_start' = Here.at_line_start
    /\ UNCHANGED <<source, lex_pc>>
    /\ UNCHANGED <<irVars, parseVars>>

\* tokenize, lines 312-313: the test that sends a character to parse_string
starts_string(src, pos) ==
    \/ peek(src, pos) \in {"\"", "'"}
    \/ /\ peek(src, pos) \in {"f", "F"}
       /\ peek_next(src, pos) \in {"\"", "'"}

\* lines 312-315: a string literal
LexString ==
    /\ InLoop /\ ~Here.raised /\ ~Here.at_line_start /\ ~isalpha(current)
    /\ starts_string(source, Here.position)
    /\ LET p == parse_string(source, Here.position)
       IN  /\ ~p.raised
           /\ position' = p.position
           /\ tokens' = (tokens \o Here.tokens) \o <<p.token>>
           /\ at_line_start' = p.at_line_start
    /\ indentation_levels' = Here.levels
    /\ UNCHANGED <<source, lex_pc>>
    /\ UNCHANGED <<irVars, parseVars>>

\* lines 312-314: parse_string raises "Unterminated string" or "Invalid
\* escape sequence"
LexStringError ==
    /\ InLoop /\ ~Here.raised /\ ~Here.at_line_start /\ ~isalpha(current)
    /\ starts_string(source, Here.position)
    /\ LET p == parse_string(source, Here.position)
       IN  /\ p.raised
           /\ position' = p.position
           /\ at_line_start' = p.at_line_start
    /\ indentation_levels' = Here.levels
    /\ tokens' = tokens \o Here.tokens
    /\ lex_pc' = "raised"
    /\ UNCHANGED source
    /\ UNCHANGED <<irVars, parseVars>>

\* line 437: a character that starts no token
LexUnknownCharacter ==
    /\ InLoop /\ ~Here.raised /\ ~Here.at_line_start /\ current = "\\"
    /\ position' = Here.position
    /\ indentation_levels' = Here.levels
    /\ at_line_start' = Here.at_line_start
    /\ tokens' = tokens \o Here.tokens
    /\ lex_pc' = "raised"
    /\ UNCHANGED source
    /\ UNCHANGED <<irVars, parseVars>>

\* lines 411-435, the single-character token ':'
LexPunctuation ==
    /\ InLoop /\ ~Here.raised /\ current = ":" /\ ~Here.at_line_start
    /\ position' = Here.position + 1
    /\ tokens' = (tokens \o Here.tokens) \o <<Token("COLON", ":")>>
    /\ indentation_levels' = Here.levels
    /\ at_line_start' = Here.at_line_start
    /\ UNCHANGED <<source, lex_pc>>
    /\ UNCHANGED <<irVars, parseVars>>

\* line 264: the loop condition fails
LexLoopExit ==
    /\ lex_pc = "loop" /\ position >= Len(source)
    /\ lex_pc' = "eof"
    /\ UNCHANGED <<source, position, indentation_levels, at_line_start, tokens>>
    /\ UNCHANGED <<irVars, parseVars>>

\* lines 440-442: one turn of the closing while loop
LexFinalDedent ==
    /\ lex_pc = "eof" /\ Len(indentation_levels) > 1
    /\ indentation_levels' = SubSeq(indentation_levels, 1, Len(indentation_levels) - 1)
    /\ tokens' = Append(tokens, Token("DEDENT", ""))
    /\ UNCHANGED <<source, position, at_line_start, lex_pc>>
    /\ UNCHANGED <<irVars, parseVars>>

\* LexEnd without waiting for the closing while loop of lines 440-442: END
\* is emitted as soon as the end of the source is reached
LexEnd_early ==
    /\ lex_pc = "eof"
    /\ tokens' = Append(tokens, Token("END", ""))
    /\ lex_pc' = "done"
    /\ UNCHANGED <<source, position, indentation_levels, at_line_start>>
    /\ UNCHANGED <<irVars, parseVars>>

\* lines 445-447
LexEnd ==
    /\ lex_pc = "eof" /\ Len(indentation_levels) <= 1
    /\ tokens' = Append(tokens, Token("END", ""))
    /\ lex_pc' = "done"
    /\ UNCHANGED <<source, position, indentation_levels, at_line_start>>
    /\ UNCHANGED <<irVars, parseVars>>

RECURSIVE SeqsUpTo(_, _)
SeqsUpTo(S, n) ==
    IF n = 0 THEN {<<>>}
    ELSE LET shorter == SeqsUpTo(S, n - 1)
         IN  shorter \cup {Append(s, c) : s \in {t \in shorter : Len(t) = n - 1}, c \in S}

\* The text of the lines "a" indented by the given numbers of spaces
RECURSIVE IndentedLines(_)
IndentedLines(widths) ==
    IF widths = <<>> THEN <<>>
    ELSE ([i \in 1..Head(widths) |-> " "] \o <<"a", "\n">>) \o IndentedLines(Tail(widths))

IndentedSources == {IndentedLines(w) : w \in SeqsUpTo(0..MaxIndent, MaxLines)}

\* The texts whose lines may end in a carriage return and a newline
ReturnSources == SeqsUpTo({" ", "a", "\n", "\r"}, MaxLen)

\* The texts that hold a triple-quoted string, with or without a newline in
\* it, behind nothing, a space or a token, and followed by more text
TripleQuote == <<"\"", "\"", "\"">>
TripleSources ==
    {(((before \o TripleQuote) \o text) \o TripleQuote) \o after :
        before \in {<<>>, <<" ">>, <<":">>},
        text \in SeqsUpTo({"a", "\n"}, MaxDocLen),
        after \in SeqsUpTo({" ", "a", "\n"}, MaxDocLen)}

Sources ==
    (((SeqsUpTo(Alphabet, MaxLen) \cup SeqsUpTo(StrAlphabet, MaxStrLen)) \cup IndentedSources)
        \cup ReturnSources) \cup TripleSources

IrIdle ==
    /\ ast = <<>> /\ node_statements = <<>>
    /\ stmt_index = 0 /\ functions = <<>> /\ main_body = <<>>
    /\ temp_counter = 0 /\ label_counter = 0
    /\ current_function = NoneV /\ current_class = NoneV
    /\ temps_issued = <<>> /\ labels_issued = <<>>
    /\ program = NoneV /\ ir_pc = "idle"

\* no parser has been constructed
ParseIdle ==
    /\ parser_tokens = <<>> /\ parser_current = 0 /\ ast_nodes = <<>>
    /\ errors_printed = 0 /\ parse_pc = "idle"

\* Lexer.__init__, lines 4-10
InitLex ==
    /\ source \in Sources
    /\ position = 0
    /\ indentation_levels = <<0>>
    /\ at_line_start = TRUE
    /\ tokens = <<>>
    /\ lex_pc = "loop"
    /\ IrIdle
    /\ ParseIdle

NextLex ==
    \/ LexIndentError \/ LexBreak \/ LexComment \/ LexNewline \/ LexWhitespace
    \/ LexIdentifier \/ LexString \/ LexStringError \/ LexPunctuation
    \/ LexUnknownCharacter \/ LexLoopExit \/ LexFinalDedent \/ LexEnd

SpecLex == InitLex /\ [][NextLex]_vars

(***************************************************************************)
(* AST NODES (src/parser/ast_nodes.py).  A constructor with fewer          *)
(* parameters than the class's __init__ leaves the others at the value an  *)
(* absent argument gives them.                                             *)
(***************************************************************************)
IntLiteralNode(value) == [kind |-> "IntLiteralNode", value |-> value]
FloatLiteralNode(value) == [kind |-> "FloatLiteralNode", value |-> value]
StringLiteralNode(value) == [kind |-> "StringLiteralNode", value |-> value]
BoolLiteralNode(value) == [kind |-> "BoolLiteralNode", value |-> value]
NoneLiteralNode == [kind |-> "NoneLiteralNode"]
IdentifierNode(name) == [kind |-> "IdentifierNode", name |-> name]
BinaryOpNode(op, left, right) ==
    [kind |-> "BinaryOpNode", op |-> op, left |-> left, right |-> right]
AssignmentNode(target, value) ==
    [kind |-> "AssignmentNode", target |-> target, value |-> value]
FunctionCallNode(callable, arguments) ==
    [kind |-> "FunctionCallNode", callable |-> callable, arguments |-> arguments,
     keyword_args |-> <<>>]
AttributeNode(value, attr) == [kind |-> "AttributeNode", value |-> value, attr |-> attr]
ParameterNode(name) == [kind |-> "ParameterNode", name |-> name, default_value |-> NoneV]
FunctionDefNode(name, parameters, body) ==
    [kind |-> "FunctionDefNode", name |-> name, parameters |-> parameters, body |-> body]
ClassDefNode(name, body) ==
    [kind |-> "ClassDefNode", name |-> name, bases |-> <<>>, body |-> body]
ReturnNode(value) == [kind |-> "ReturnNode", value |-> value]
IfNode(condition, then_body, else_body) ==
    [kind |-> "IfNode", condition |-> condition, then_body |-> then_body,
     else_body |-> else_body]
WhileNode(condition, body) == [kind |-> "WhileNode", condition |-> condition, body |-> body]
PassNode == [kind |-> "PassNode"]
BreakNode == [kind |-> "BreakNode"]
ContinueNode == [kind |-> "ContinueNode"]
ForNode(target, iterable, body) ==
    [kind |-> "ForNode", target |-> target, iterable |-> iterable, body |-> body]
ImportNode(module, alias) == [kind |-> "ImportNode", module |-> module, alias |-> alias]
FromImportNode(module, imports) ==
    [kind |-> "FromImportNode", module |-> module, imports |-> imports]
ListNode(elements) == [kind |-> "ListNode", elements |-> elements]
DictNode(items) == [kind |-> "DictNode", items |-> items]
SubscriptNode(value, index) == [kind |-> "SubscriptNode", value |-> value, index |-> index]

(***************************************************************************)
(* PARSER (src/parser/parser.py)                                           *)
(* A parsing method takes the token list and the cursor Parser.current and *)
(* gives [val, current, raised]: the value it returns, the cursor it       *)
(* leaves, and whether it left by raising SyntaxError (val is then the     *)
(* exception and current the cursor at the raise).                         *)
(***************************************************************************)
Parsed(val, cur) == [val |-> val, current |-> cur, raised |-> FALSE]
Failed(cur) == [val |-> Raise("SyntaxError"), current |-> cur, raised |-> TRUE]

\* One call and the statements after it: the call r is evaluated once; when
\* it raised, the exception leaves the method, else the rest of the method
\* runs with its result
Bind(r, Rest(_)) == CHOOSE out \in {IF x.raised THEN x ELSE Rest(x) : x \in {r}} : TRUE

\* Parser.peek, lines 9-13, and the type of the token it gives; "None" when
\* the cursor is past the last token
peek_type(toks, cur) == IF cur >= Len(toks) THEN "None" ELSE toks[cur + 1].type

\* Parser.match, lines 22-27: whether the current token has one of the
\* types; when it has, match advances the cursor by one
match(toks, cur, types) == peek_type(toks, cur) \in types

\* a match whose result is dropped (the optional NEWLINE, the DEDENT)
skip(toks, cur, types) == IF match(toks, cur, types) THEN cur + 1 ELSE cur

\* Parser.expect, lines 29-38
expect(toks, cur, type) ==
    IF peek_type(toks, cur) = type THEN Parsed(toks[cur + 1], cur + 1) ELSE Failed(cur)

\* synchronize without the loop of lines 58-61: the cursor moves only when
\* it is on a NEWLINE or a SEMICOLON already
synchronize_in_place(toks, cur) ==
    IF peek_type(toks, cur) \in {"NEWLINE", "SEMICOLON"} THEN cur + 1 ELSE cur

\* Parser.synchronize, lines 56-65
RECURSIVE synchronize(_, _)
synchronize(toks, cur) ==
    IF peek_type(toks, cur) \notin {"NEWLINE", "SEMICOLON", "END", "None"}
    THEN synchronize(toks, cur + 1)
    ELSE IF peek_type(toks, cur) \in {"NEWLINE", "SEMICOLON"} THEN cur + 1
    ELSE cur

\* the operator tokens each binary method matches, and the op string it
\* stores: 1 parse_logical_or, 2 parse_logical_and, 3 parse_equality,
\* 4 parse_comparison, 5 parse_term, 6 parse_factor
BinaryOperators(level) ==
    CASE level = 1 -> {"OR"}
      [] level = 2 -> {"AND"}
      [] level = 3 -> {"EQ", "NEQ"}
      [] level = 4 -> {"LT", "GT", "LTE", "GTE"}
      [] level = 5 -> {"PLUS", "MINUS"}
      [] level = 6 -> {"MUL", "DIV", "MOD"}

OperatorText(type) ==
    CASE type = "OR" -> "or"   [] type = "AND" -> "and"
      [] type = "EQ" -> "=="   [] type = "NEQ" -> "!="
      [] type = "LT" -> "<"    [] type = "GT" -> ">"
      [] type = "LTE" -> "<="  [] type = "GTE" -> ">="
      [] type = "PLUS" -> "+"  [] type = "MINUS" -> "-"
      [] type = "MUL" -> "*"   [] type = "DIV" -> "/"
      [] type = "MOD" -> "%"
      [] type = "PLUS_ASSIGN" -> "+"  [] type = "MINUS_ASSIGN" -> "-"
      [] type = "MUL_ASSIGN" -> "*"   [] type = "DIV_ASSIGN" -> "/"

CompoundAssignments == {"PLUS_ASSIGN", "MINUS_ASSIGN", "MUL_ASSIGN", "DIV_ASSIGN"}

\* finish_identifier, lines 504-505 and 517-518: the test for a keyword
\* argument
is_keyword_argument(arg) ==
    /\ arg.kind = "BinaryOpNode"
    /\ arg.op = "="
    /\ arg.left.kind = "IdentifierNode"

\* kwargs[key] = value on a dict kept as the sequence of its <<key, value>>
\* pairs in insertion order
dict_set(d, key, value) ==
    IF \E i \in 1..Len(d) : d[i][1] = key
    THEN [i \in 1..Len(d) |-> IF d[i][1] = key THEN <<key, value>> ELSE d[i]]
    ELSE Append(d, <<key, value>>)

\* finish_identifier, lines 504-508 and 517-521: where an argument goes
add_argument(acc, arg) ==
    IF is_keyword_argument(arg)
    THEN [acc EXCEPT !.kwargs = dict_set(@, arg.left.name, arg.right)]
    ELSE [acc EXCEPT !.args = Append(@, arg)]

RECURSIVE parse_statement(_, _)
RECURSIVE block_loop(_, _, _)
RECURSIVE parse_block(_, _)
RECURSIVE parse_function_def(_, _)
RECURSIVE parameter_loop(_, _, _)
RECURSIVE parse_parameters(_, _)
RECURSIVE parse_parameter(_, _)
RECURSIVE base_loop(_, _, _)
RECURSIVE parse_class_def(_, _)
RECURSIVE parse_if_statement(_, _)
RECURSIVE parse_while_loop(_, _)
RECURSIVE parse_for_loop(_, _)
RECURSIVE parse_return(_, _)
RECURSIVE parse_expression(_, _)
RECURSIVE binary_loop(_, _, _, _)
RECURSIVE parse_binary(_, _, _)
RECURSIVE parse_logical_or(_, _)
RECURSIVE parse_unary(_, _)
RECURSIVE power_loop(_, _, _)
RECURSIVE parse_power(_, _)
RECURSIVE element_loop(_, _, _)
RECURSIVE item_loop(_, _, _)
RECURSIVE parse_primary(_, _)
RECURSIVE argument_loop(_, _, _)
RECURSIVE finish_loop(_, _, _)
RECURSIVE finish_identifier(_, _, _)

\* parse_import, lines 250-252 (and 273-275, 284-286 of
\* parse_from_import): the optional alias, "" without one
optional_alias(toks, cur) ==
    IF match(toks, cur, {"AS"})
    THEN Bind(expect(toks, cur + 1, "IDENTIFIER"), LAMBDA alias_token :
         Parsed(alias_token.val.value, alias_token.current))
    ELSE Parsed("", cur)

\* parse_import, lines 242-255
parse_import(toks, cur) ==
    Bind(expect(toks, cur + 1, "IDENTIFIER"), LAMBDA module_token :
    Bind(optional_alias(toks, module_token.current), LAMBDA alias :
    Parsed(ImportNode(module_token.val.value, alias.val),
           skip(toks, alias.current, {"NEWLINE"}))))

\* parse_from_import, lines 270-277 and 281-288: one imported name with its
\* optional alias, as the pair (name, alias)
import_name(toks, cur) ==
    Bind(expect(toks, cur, "IDENTIFIER"), LAMBDA name_token :
    Bind(optional_alias(toks, name_token.current), LAMBDA alias :
    Parsed(<<name_token.val.value, alias.val>>, alias.current)))

\* parse_from_import, lines 280-288
RECURSIVE import_loop(_, _, _)
import_loop(toks, cur, imports) ==
    IF ~match(toks, cur, {"COMMA"}) THEN Parsed(imports, cur)
    ELSE Bind(import_name(toks, cur + 1), LAMBDA name :
         import_loop(toks, name.current, Append(imports, name.val)))

\* parse_from_import, lines 266-288
import_list(toks, cur) ==
    IF match(toks, cur, {"MUL"}) THEN Parsed(<< <<"*", "">> >>, cur + 1)
    ELSE Bind(import_name(toks, cur), LAMBDA first :
         import_loop(toks, first.current, <<first.val>>))

\* parse_from_import, lines 257-291
parse_from_import(toks, cur) ==
    Bind(expect(toks, cur + 1, "IDENTIFIER"), LAMBDA module_token :
    Bind(expect(toks, module_token.current, "IMPORT"), LAMBDA import_token :
    Bind(import_list(toks, import_token.current), LAMBDA imports :
    Parsed(FromImportNode(module_token.val.value, imports.val),
           skip(toks, imports.current, {"NEWLINE"})))))

\* parse_statement, lines 67-106
parse_statement(toks, cur) ==
    LET type == peek_type(toks, cur)
    IN  CASE type = "DEF" -> parse_function_def(toks, cur)
          [] type = "CLASS" -> parse_class_def(toks, cur)
          [] type = "IF" -> parse_if_statement(toks, cur)
          [] type = "WHILE" -> parse_while_loop(toks, cur)
          [] type = "FOR" -> parse_for_loop(toks, cur)
          [] type = "RETURN" -> parse_return(toks, cur)
          [] type = "IMPORT" -> parse_import(toks, cur)
          [] type = "FROM" -> parse_from_import(toks, cur)
          [] type = "PASS" -> Parsed(PassNode, skip(toks, cur + 1, {"NEWLINE"}))
          [] type = "BREAK" -> Parsed(BreakNode, skip(toks, cur + 1, {"NEWLINE"}))
          [] type = "CONTINUE" -> Parsed(ContinueNode, skip(toks, cur + 1, {"NEWLINE"}))
          [] type = "NEWLINE" -> Parsed(NoneV, cur + 1)
          [] OTHER -> Bind(parse_expression(toks, cur), LAMBDA expr :
                      Parsed(expr.val, skip(toks, expr.current, {"NEWLINE"})))

\* parse_block, lines 119-126
block_loop(toks, cur, statements) ==
    IF peek_type(toks, cur) \in {"DEDENT", "None"}
    THEN Parsed(statements, skip(toks, cur, {"DEDENT"}))
    ELSE Bind(parse_statement(toks, cur), LAMBDA stmt :
         block_loop(toks, stmt.current,
                    IF stmt.val = NoneV THEN statements
                    ELSE Append(statements, stmt.val)))

\* parse_block, lines 108-126
parse_block(toks, cur) ==
    Bind(expect(toks, cur, "COLON"), LAMBDA colon :
    IF ~match(toks, skip(toks, colon.current, {"NEWLINE"}), {"INDENT"})
    THEN Bind(parse_statement(toks, skip(toks, colon.current, {"NEWLINE"})), LAMBDA stmt :
         Parsed(IF stmt.val = NoneV THEN <<>> ELSE <<stmt.val>>, stmt.current))
    ELSE block_loop(toks, skip(toks, colon.current, {"NEWLINE"}) + 1, <<>>))

\* parse_function_def, lines 128-139
parse_function_def(toks, cur) ==
    Bind(expect(toks, cur + 1, "IDENTIFIER"), LAMBDA name_token :
    Bind(expect(toks, name_token.current, "LPAREN"), LAMBDA lparen :
    Bind(parse_parameters(toks, lparen.current), LAMBDA parameters :
    Bind(expect(toks, parameters.current, "RPAREN"), LAMBDA rparen :
    Bind(parse_block(toks, rparen.current), LAMBDA body :
    Parsed(FunctionDefNode(name_token.val.value, parameters.val, body.val),
           body.current))))))

\* parse_parameters, lines 153-154
parameter_loop(toks, cur, parameters) ==
    IF ~match(toks, cur, {"COMMA"}) THEN Parsed(parameters, cur)
    ELSE Bind(parse_parameter(toks, cur + 1), LAMBDA parameter :
         parameter_loop(toks, parameter.current, Append(parameters, parameter.val)))

\* parse_parameters, lines 141-156
parse_parameters(toks, cur) ==
    IF peek_type(toks, cur) = "RPAREN" THEN Parsed(<<>>, cur)
    ELSE Bind(parse_parameter(toks, cur), LAMBDA first :
         parameter_loop(toks, first.current, <<first.val>>))

\* parse_parameter, lines 158-167
parse_parameter(toks, cur) ==
    Bind(expect(toks, cur, "IDENTIFIER"), LAMBDA name_token :
    IF ~match(toks, name_token.current, {"ASSIGN"})
    THEN Parsed(ParameterNode(name_token.val.value), name_token.current)
    ELSE Bind(parse_expression(toks, name_token.current + 1), LAMBDA default_value :
         Parsed([ParameterNode(name_token.val.value)
                    EXCEPT !.default_value = default_value.val],
                default_value.current)))

\* parse_class_def, lines 180-181
base_loop(toks, cur, bases) ==
    IF ~match(toks, cur, {"COMMA"}) THEN Parsed(bases, cur)
    ELSE Bind(parse_expression(toks, cur + 1), LAMBDA base :
         base_loop(toks, base.current, Append(bases, base.val)))

\* parse_class_def, lines 175-182: the base classes
class_bases(toks, cur) ==
    IF ~match(toks, cur, {"LPAREN"}) THEN Parsed(<<>>, cur)
    ELSE IF peek_type(toks, cur + 1) = "RPAREN" THEN Parsed(<<>>, cur + 2)
    ELSE Bind(parse_expression(toks, cur + 1), LAMBDA first :
         Bind(base_loop(toks, first.current, <<first.val>>), LAMBDA bases :
         Bind(expect(toks, bases.current, "RPAREN"), LAMBDA rparen :
         Parsed(bases.val, rparen.current))))

\* parse_class_def, lines 169-185
parse_class_def(toks, cur) ==
    Bind(expect(toks, cur + 1, "IDENTIFIER"), LAMBDA name_token :
    Bind(class_bases(toks, name_token.current), LAMBDA bases :
    Bind(parse_block(toks, bases.current), LAMBDA body :
    Parsed([ClassDefNode(name_token.val.value, body.val) EXCEPT !.bases = bases.val],
           body.current))))

\* parse_if_statement, lines 198-208: the elif clause; the method calls
\* itself at a following elif or else, and its advance() of line 189
\* consumes that token
elif_clause(toks, cur) ==
    Bind(parse_expression(toks, cur), LAMBDA condition2 :
    Bind(parse_block(toks, condition2.current), LAMBDA then_body2 :
    IF peek_type(toks, then_body2.current) \in {"ELIF", "ELSE"}
    THEN Bind(parse_if_statement(toks, then_body2.current), LAMBDA nested :
         Parsed(<<IfNode(condition2.val, then_body2.val, <<nested.val>>)>>,
                nested.current))
    ELSE Parsed(<<IfNode(condition2.val, then_body2.val, <<>>)>>, then_body2.current)))

\* parse_if_statement, lines 187-210
parse_if_statement(toks, cur) ==
    Bind(parse_expression(toks, cur + 1), LAMBDA condition :
    Bind(parse_block(toks, condition.current), LAMBDA then_body :
    Bind(IF match(toks, then_body.current, {"ELSE"})
         THEN parse_block(toks, then_body.current + 1)
         ELSE IF match(toks, then_body.current, {"ELIF"})
         THEN elif_clause(toks, then_body.current + 1)
         ELSE Parsed(<<>>, then_body.current), LAMBDA else_body :
    Parsed(IfNode(condition.val, then_body.val, else_body.val), else_body.current))))

\* parse_while_loop, lines 212-218
parse_while_loop(toks, cur) ==
    Bind(parse_expression(toks, cur + 1), LAMBDA condition :
    Bind(parse_block(toks, condition.current), LAMBDA body :
    Parsed(WhileNode(condition.val, body.val), body.current)))

\* parse_for_loop, lines 220-229
parse_for_loop(toks, cur) ==
    Bind(parse_expression(toks, cur + 1), LAMBDA target :
    Bind(expect(toks, target.current, "IN"), LAMBDA in_token :
    Bind(parse_expression(toks, in_token.current), LAMBDA iterable :
    Bind(parse_block(toks, iterable.current), LAMBDA body :
    Parsed(ForNode(target.val, iterable.val, body.val), body.current)))))

\* parse_return, lines 231-240
parse_return(toks, cur) ==
    IF peek_type(toks, cur + 1) \in {"NEWLINE", "SEMICOLON"}
    THEN Parsed(ReturnNode(NoneV), skip(toks, cur + 1, {"NEWLINE"}))
    ELSE Bind(parse_expression(toks, cur + 1), LAMBDA value :
         Parsed(ReturnNode(value.val), skip(toks, value.current, {"NEWLINE"})))

\* parse_expression, lines 298-312: the node of an assignment
assignment(type, expr, value) ==
    IF type = "ASSIGN" THEN AssignmentNode(expr, value)
    ELSE AssignmentNode(expr, BinaryOpNode(OperatorText(type), expr, value))

\* parse_expression with the value of a compound assignment parsed by
\* parse_logical_or: the value ends at the first assignment operator
parse_expression_short_value(toks, cur) ==
    Bind(parse_logical_or(toks, cur), LAMBDA expr :
    IF peek_type(toks, expr.current) \notin ({"ASSIGN"} \cup CompoundAssignments)
    THEN expr
    ELSE Bind(IF peek_type(toks, expr.current) = "ASSIGN"
              THEN parse_expression(toks, expr.current + 1)
              ELSE parse_logical_or(toks, expr.current + 1), LAMBDA value :
         Parsed(assignment(peek_type(toks, expr.current), expr.val, value.val),
                value.current)))

\* parse_expression, lines 293-314
parse_expression(toks, cur) ==
    Bind(parse_logical_or(toks, cur), LAMBDA expr :
    IF peek_type(toks, expr.current) \notin ({"ASSIGN"} \cup CompoundAssignments)
    THEN expr
    ELSE Bind(parse_expression(toks, expr.current + 1), LAMBDA value :
         Parsed(assignment(peek_type(toks, expr.current), expr.val, value.val),
                value.current)))

\* the while loop of parse_logical_or .. parse_factor (lines 320-322,
\* 330-332, 340-348, 356-370, 378-386, 394-405): the right operand is
\* parsed by the method of the next level
binary_loop(toks, cur, expr, level) ==
    IF ~match(toks, cur, BinaryOperators(level)) THEN Parsed(expr, cur)
    ELSE Bind(parse_binary(toks, cur + 1, level + 1), LAMBDA right :
         binary_loop(toks, right.current,
                     BinaryOpNode(OperatorText(peek_type(toks, cur)), expr, right.val),
                     level))

\* the binary method of a level: its first operand, then its loop; the
\* level above parse_factor is parse_unary
parse_binary(toks, cur, level) ==
    IF level = 7 THEN parse_unary(toks, cur)
    ELSE Bind(parse_binary(toks, cur, level + 1), LAMBDA expr :
         binary_loop(toks, expr.current, expr.val, level))

\* parse_logical_or, lines 316-324
parse_logical_or(toks, cur) == parse_binary(toks, cur, 1)

\* parse_logical_and, lines 326-334
parse_logical_and(toks, cur) == parse_binary(toks, cur, 2)

\* parse_equality, lines 336-350
parse_equality(toks, cur) == parse_binary(toks, cur, 3)

\* parse_comparison, lines 352-372
parse_comparison(toks, cur) == parse_binary(toks, cur, 4)

\* parse_term, lines 374-388
parse_term(toks, cur) == parse_binary(toks, cur, 5)

\* parse_factor, lines 390-407
parse_factor(toks, cur) == parse_binary(toks, cur, 6)

\* parse_unary, lines 409-419
parse_unary(toks, cur) ==
    IF match(toks, cur, {"MINUS"})
    THEN Bind(parse_unary(toks, cur + 1), LAMBDA right :
         Parsed(BinaryOpNode("-", IntLiteralNode(0), right.val), right.current))
    ELSE IF match(toks, cur, {"NOT"})
    THEN Bind(parse_unary(toks, cur + 1), LAMBDA right :
         Parsed(BinaryOpNode("not", right.val, NoneV), right.current))
    ELSE parse_power(toks, cur)

\* parse_power, lines 425-427, with the right operand parsed by
\* parse_primary: a chain of ** then groups left to right
power_loop_primary(toks, cur, expr) ==
    IF ~match(toks, cur, {"POWER"}) THEN Parsed(expr, cur)
    ELSE Bind(parse_primary(toks, cur + 1), LAMBDA right :
         power_loop(toks, right.current, BinaryOpNode("**", expr, right.val)))

\* parse_power, lines 425-427
power_loop(toks, cur, expr) ==
    IF ~match(toks, cur, {"POWER"}) THEN Parsed(expr, cur)
    ELSE Bind(parse_unary(toks, cur + 1), LAMBDA right :
         power_loop(toks, right.current, BinaryOpNode("**", expr, right.val)))

\* parse_power, lines 421-429
parse_power(toks, cur) ==
    Bind(parse_primary(toks, cur), LAMBDA expr :
    power_loop(toks, expr.current, expr.val))

\* parse_primary, lines 458-461: the elements after the first
element_loop(toks, cur, elements) ==
    IF ~match(toks, cur, {"COMMA"}) THEN Parsed(elements, cur)
    ELSE IF peek_type(toks, cur + 1) = "RBRACK" THEN Parsed(elements, cur + 1)
    ELSE Bind(parse_expression(toks, cur + 1), LAMBDA element :
         element_loop(toks, element.current, Append(elements, element.val)))

\* parse_primary, lines 468-471 and 476-479: one key: value item
dict_item(toks, cur) ==
    Bind(parse_expression(toks, cur), LAMBDA key :
    Bind(expect(toks, key.current, "COLON"), LAMBDA colon :
    Bind(parse_expression(toks, colon.current), LAMBDA value :
    Parsed(<<key.val, value.val>>, value.current))))

\* parse_primary, lines 473-479: the items after the first
item_loop(toks, cur, items) ==
    IF ~match(toks, cur, {"COMMA"}) THEN Parsed(items, cur)
    ELSE IF peek_type(toks, cur + 1) = "RBRACE" THEN Parsed(items, cur + 1)
    ELSE Bind(dict_item(toks, cur + 1), LAMBDA item :
         item_loop(toks, item.current, Append(items, item.val)))

\* parse_primary, lines 453-463: the list literal after its [
list_literal(toks, cur) ==
    Bind(IF peek_type(toks, cur) = "RBRACK" THEN Parsed(<<>>, cur)
         ELSE Bind(parse_expression(toks, cur), LAMBDA first :
              element_loop(toks, first.current, <<first.val>>)), LAMBDA elements :
    Bind(expect(toks, elements.current, "RBRACK"), LAMBDA rbrack :
    Parsed(ListNode(elements.val), rbrack.current)))

\* parse_primary, lines 464-481: the dict literal after its {
dict_literal(toks, cur) ==
    Bind(IF peek_type(toks, cur) = "RBRACE" THEN Parsed(<<>>, cur)
         ELSE Bind(dict_item(toks, cur), LAMBDA first :
              item_loop(toks, first.current, <<first.val>>)), LAMBDA items :
    Bind(expect(toks, items.current, "RBRACE"), LAMBDA rbrace :
    Parsed(DictNode(items.val), rbrace.current)))

\* parse_primary, lines 431-483
parse_primary(toks, cur) ==
    LET type == peek_type(toks, cur)
        token == toks[cur + 1]
    IN  CASE type = "INTEGER_LITERAL" -> Parsed(IntLiteralNode(token.value), cur + 1)
          [] type = "FLOAT_LITERAL" -> Parsed(FloatLiteralNode(token.value), cur + 1)
          [] type = "STRING_LITERAL" -> Parsed(StringLiteralNode(token.value), cur + 1)
          [] type = "TRUE" -> Parsed(BoolLiteralNode(TRUE), cur + 1)
          [] type = "FALSE" -> Parsed(BoolLiteralNode(FALSE), cur + 1)
          [] type = "NONE" -> Parsed(NoneLiteralNode, cur + 1)
          [] type = "IDENTIFIER" -> finish_identifier(toks, cur + 1, token.value)
          [] type = "LPAREN" ->
                Bind(parse_expression(toks, cur + 1), LAMBDA expr :
                Bind(expect(toks, expr.current, "RPAREN"), LAMBDA rparen :
                Parsed(expr.val, rparen.current)))
          [] type = "LBRACK" -> list_literal(toks, cur + 1)
          [] type = "LBRACE" -> dict_literal(toks, cur + 1)
          [] OTHER -> Failed(cur)

\* finish_identifier, lines 510-521: the arguments after the first
argument_loop(toks, cur, acc) ==
    IF ~match(toks, cur, {"COMMA"}) THEN Parsed(acc, cur)
    ELSE IF peek_type(toks, cur + 1) = "RPAREN" THEN Parsed(acc, cur + 1)
    ELSE Bind(parse_expression(toks, cur + 1), LAMBDA arg :
         argument_loop(toks, arg.current, add_argument(acc, arg.val)))

\* finish_identifier, lines 494-524: the call after its (
call_arguments(toks, cur) ==
    Bind(IF peek_type(toks, cur) = "RPAREN"
         THEN Parsed([args |-> <<>>, kwargs |-> <<>>], cur)
         ELSE Bind(parse_expression(toks, cur), LAMBDA arg :
              argument_loop(toks, arg.current,
                            add_argument([args |-> <<>>, kwargs |-> <<>>], arg.val))),
         LAMBDA acc :
    Bind(expect(toks, acc.current, "RPAREN"), LAMBDA rparen :
    Parsed(acc.val, rparen.current)))

\* finish_identifier, lines 489-531: one turn of its loop and the rest
finish_loop(toks, cur, expr) ==
    LET type == peek_type(toks, cur)
    IN  CASE type = "DOT" ->
                Bind(expect(toks, cur + 1, "IDENTIFIER"), LAMBDA attr_token :
                finish_loop(toks, attr_token.current,
                            AttributeNode(expr, attr_token.val.value)))
          [] type = "LPAREN" ->
                Bind(call_arguments(toks, cur + 1), LAMBDA call :
                finish_loop(toks, call.current,
                            [FunctionCallNode(expr, call.val.args)
                                EXCEPT !.keyword_args = call.val.kwargs]))
          [] type = "LBRACK" ->
                Bind(parse_expression(toks, cur + 1), LAMBDA index :
                Bind(expect(toks, index.current, "RBRACK"), LAMBDA rbrack :
                finish_loop(toks, rbrack.current, SubscriptNode(expr, index.val))))
          [] OTHER -> Parsed(expr, cur)

\* finish_identifier, lines 485-533
finish_identifier(toks, cur, name) == finish_loop(toks, cur, IdentifierNode(name))

(***************************************************************************)
(* IR NODES (src/intermediate/ir_nodes.py)                                 *)
(***************************************************************************)
IRProgram(funcs) == [kind |-> "IRProgram", functions |-> funcs]
IRFunction(name, params, body) ==
    [kind |-> "IRFunction", name |-> name, params |-> params, body |-> body]
IRBinaryOp(op, left, right, result) ==
    [kind |-> "IRBinaryOp", op |-> op, left |-> left, right |-> right, result |-> result]
IRStore(src, target) == [kind |-> "IRStore", source |-> src, target |-> target]
IRCall(func, args, result) ==
    [kind |-> "IRCall", func |-> func, args |-> args, result |-> result]
IRMethodCall(obj, method, args, result) ==
    [kind |-> "IRMethodCall", obj |-> obj, method |-> method, args |-> args,
     result |-> result]
IRConstructorCall(class_name, args, result) ==
    [kind |-> "IRConstructorCall", class_name |-> class_name, args |-> args,
     result |-> result]
IRReturn(value) == [kind |-> "IRReturn", value |-> value]
IRJump(target) == [kind |-> "IRJump", target |-> target]
IRCondJump(condition, true_target, false_target) ==
    [kind |-> "IRCondJump", condition |-> condition, true_target |-> true_target,
     false_target |-> false_target]
IRConstant(value) == [kind |-> "IRConstant", value |-> value]
IRVariable(name) == [kind |-> "IRVariable", name |-> name]

\* ir_nodes.py defines no class IRLabel and ir_generator.py imports none:
\* evaluating the name IRLabel raises NameError.
IRLabel(name) == Raise("NameError")

(***************************************************************************)
(* IR GENERATOR (src/intermediate/ir_generator.py)                         *)
(* A visit takes the generator's fields g and gives [val, g]: the value    *)
(* returned (or the exception raised) and the fields afterwards.           *)
(***************************************************************************)
Ret(val, g) == [val |-> val, g |-> g]

\* IRGenerator.__init__
NewGenerator ==
    [temp_counter |-> 0, label_counter |-> 0,
     current_function |-> NoneV, current_class |-> NoneV,
     temps_issued |-> <<>>, labels_issued |-> <<>>]

\* IRGenerator.generate_temp
generate_temp(g) ==
    LET temp == "t" \o ToString(g.temp_counter)
    IN  Ret(temp, [g EXCEPT !.temp_counter = @ + 1,
                            !.temps_issued = Append(@, temp)])

\* IRGenerator.generate_label
generate_label(g) ==
    LET label == "L" \o ToString(g.label_counter)
    IN  Ret(label, [g EXCEPT !.label_counter = @ + 1,
                             !.labels_issued = Append(@, label)])

\* Python's x.result and x.name: AttributeError when x has no such attribute
\* (x is a str when it is the dest of an instruction, an object otherwise)
attr_result(x) == IF "result" \in DOMAIN x THEN Str(x.result) ELSE Raise("AttributeError")
attr_name(x) == IF "name" \in DOMAIN x THEN Str(x.name) ELSE Raise("AttributeError")

\* Python's x[-1].result for a list x
last_result(x) ==
    IF Len(x.items) = 0 THEN Raise("IndexError") ELSE attr_result(x.items[Len(x.items)])

\* A Python list built from elements of which some may have raised: the
\* first exception, in evaluation order, leaves the statement
list_of(elems) ==
    IF \E i \in 1..Len(elems) : IsRaise(elems[i])
    THEN elems[CHOOSE i \in 1..Len(elems) :
                   IsRaise(elems[i]) /\ \A j \in 1..(i - 1) : ~IsRaise(elems[j])]
    ELSE PyList(elems)

\* The idiom "if isinstance(ir, list): body.extend(ir) else: body.append(ir)"
extend_or_append(body, ir) == IF ir.kind = "list" THEN body \o ir.items ELSE Append(body, ir)

VisitorNames ==
    {"FunctionDefNode", "ClassDefNode", "BinaryOpNode", "IntLiteralNode",
     "FloatLiteralNode", "StringLiteralNode", "BoolLiteralNode", "NoneLiteralNode",
     "IdentifierNode", "AssignmentNode", "FunctionCallNode", "IfNode", "WhileNode",
     "ReturnNode", "AttributeNode"}

RECURSIVE visit(_, _)
RECURSIVE visit_statements(_, _, _)
RECURSIVE visit_arguments(_, _, _)
RECURSIVE visit_methods(_, _, _)

\* The loop "for stmt in body: ir = self.visit(stmt); extend or append"
\* (lines 77-82, 226-231, 235-240, 265-270): val is the list built
visit_statements(stmts, body, g) ==
    IF stmts = <<>> THEN Ret(PyList(body), g)
    ELSE LET r == visit(Head(stmts), g)
         IN  IF IsRaise(r.val) THEN r
             ELSE visit_statements(Tail(stmts), extend_or_append(body, r.val), r.g)

\* visit_FunctionDefNode numbering the temporaries of each function from 0
visit_FunctionDefNode_resets(node, g) ==
    LET prev_function == g.current_function
        params == [i \in 1..Len(node.parameters) |-> node.parameters[i].name]
        b == visit_statements(node.body, <<>>,
                              [g EXCEPT !.current_function = Str(node.name),
                                        !.temp_counter = 0])
    IN  IF IsRaise(b.val) THEN b
        ELSE Ret(IRFunction(node.name, params, b.val.items),
                 [b.g EXCEPT !.current_function = prev_function])

\* visit_FunctionDefNode, lines 69-85
visit_FunctionDefNode(node, g) ==
    LET prev_function == g.current_function
        params == [i \in 1..Len(node.parameters) |-> node.parameters[i].name]
        b == visit_statements(node.body, <<>>,
                              [g EXCEPT !.current_function = Str(node.name)])
    IN  IF IsRaise(b.val) THEN b
        ELSE Ret(IRFunction(node.name, params, b.val.items),
                 [b.g EXCEPT !.current_function = prev_function])

\* visit_ClassDefNode, lines 101-105: the loop over the class body
visit_methods(stmts, funcs, g) ==
    IF stmts = <<>> THEN Ret(PyList(funcs), g)
    ELSE IF Head(stmts).kind = "FunctionDefNode"
    THEN LET stmt == [Head(stmts) EXCEPT
                         !.parameters = <<ParameterNode("self")>> \o @]
             r == visit(stmt, g)
         IN  IF IsRaise(r.val) THEN r
             ELSE visit_methods(Tail(stmts), Append(funcs, r.val), r.g)
    ELSE visit_methods(Tail(stmts), funcs, g)

\* visit_ClassDefNode leaving current_class set to the class lowered
visit_ClassDefNode_keeps_class(node, g) ==
    visit_methods(node.body, <<>>, [g EXCEPT !.current_class = Str(node.name)])

\* visit_ClassDefNode, lines 87-108
visit_ClassDefNode(node, g) ==
    LET prev_class == g.current_class
        m == visit_methods(node.body, <<>>, [g EXCEPT !.current_class = Str(node.name)])
    IN  IF IsRaise(m.val) THEN m
        ELSE Ret(m.val, [m.g EXCEPT !.current_class = prev_class])

\* visit_BinaryOpNode, lines 120-125 and 128-133: the steps an operand
\* contributes and what stands for it in the instruction
operand_steps(x) ==
    IF x.kind = "list" THEN [steps |-> x.items, operand |-> last_result(x)]
    ELSE IF x.kind = "IRBinaryOp" THEN [steps |-> <<x>>, operand |-> attr_result(x)]
    ELSE [steps |-> <<>>, operand |-> x]

\* binary_steps with the steps of the right operand placed first
binary_steps_right_first(op, left, right, result) ==
    LET l == operand_steps(left)
        r == operand_steps(right)
    IN  IF IsRaise(l.operand) THEN l.operand
        ELSE IF IsRaise(r.operand) THEN r.operand
        ELSE PyList((r.steps \o l.steps)
                    \o <<IRBinaryOp(op, l.operand, r.operand, result)>>)

\* visit_BinaryOpNode, lines 117-137: the list returned
binary_steps(op, left, right, result) ==
    LET l == operand_steps(left)
        r == operand_steps(right)
    IN  IF IsRaise(l.operand) THEN l.operand
        ELSE IF IsRaise(r.operand) THEN r.operand
        ELSE PyList((l.steps \o r.steps)
                    \o <<IRBinaryOp(op, l.operand, r.operand, result)>>)

\* visit_BinaryOpNode
visit_BinaryOpNode(node, g) ==
    LET left == visit(node.left, g)
        right == visit(node.right, left.g)
        result == generate_temp(right.g)
    IN  IF IsRaise(left.val) THEN left
        ELSE IF IsRaise(right.val) THEN right
        ELSE Ret(binary_steps(node.op, left.val, right.val, result.val), result.g)

\* visit_IntLiteralNode
visit_IntLiteralNode(node, g) == Ret(IRConstant(node.value), g)

\* visit_FloatLiteralNode
visit_FloatLiteralNode(node, g) == Ret(IRConstant(node.value), g)

\* visit_StringLiteralNode
visit_StringLiteralNode(node, g) == Ret(IRConstant(node.value), g)

\* visit_BoolLiteralNode
visit_BoolLiteralNode(node, g) == Ret(IRConstant(node.value), g)

\* visit_NoneLiteralNode
visit_NoneLiteralNode(node, g) == Ret(IRConstant(NoneV), g)

\* visit_IdentifierNode
visit_IdentifierNode(node, g) == Ret(IRVariable(node.name), g)

\* visit_AttributeNode
visit_AttributeNode(node, g) ==
    LET obj == visit(node.value, g)
        name == attr_name(obj.val)
    IN  IF IsRaise(obj.val) THEN obj
        ELSE IF IsRaise(name) THEN Ret(name, obj.g)
        ELSE Ret(IRVariable((name.s \o ".") \o node.attr), obj.g)

\* visit_AssignmentNode, lines 176-181: what is returned for the visited
\* value and target
store_steps(value, target) ==
    LET name == attr_name(target)
        last == last_result(value)
    IN  IF value.kind = "list"
        THEN IF IsRaise(last) THEN last
             ELSE IF IsRaise(name) THEN name
             ELSE PyList(Append(value.items, IRStore(last, name.s)))
        ELSE IF IsRaise(name) THEN name
        ELSE IRStore(value, name.s)

\* visit_AssignmentNode
visit_AssignmentNode(node, g) ==
    LET value == visit(node.value, g)
        target == visit(node.target, value.g)
    IN  IF IsRaise(value.val) THEN value
        ELSE IF IsRaise(target.val) THEN target
        ELSE Ret(store_steps(value.val, target.val), target.g)

\* visit_FunctionCallNode, lines 189-195: the loop over node.arguments
visit_arguments(arguments, args, g) ==
    IF arguments = <<>> THEN Ret(PyList(args), g)
    ELSE LET arg_ir == visit(Head(arguments), g)
             last == last_result(arg_ir.val)
         IN  IF IsRaise(arg_ir.val) THEN arg_ir
             ELSE IF arg_ir.val.kind = "list"
             THEN IF IsRaise(last) THEN Ret(last, arg_ir.g)
                  ELSE visit_arguments(Tail(arguments),
                                       Append(args \o arg_ir.val.items, last), arg_ir.g)
             ELSE visit_arguments(Tail(arguments), Append(args, arg_ir.val), arg_ir.g)

\* visit_FunctionCallNode
visit_FunctionCallNode(node, g) ==
    LET func == visit(node.callable, g)
        args == visit_arguments(node.arguments, <<>>, func.g)
        result == generate_temp(args.g)
        obj == visit(node.callable.value, result.g)
        name == attr_name(func.val)
    IN  IF IsRaise(func.val) THEN func
        ELSE IF IsRaise(args.val) THEN args
        ELSE IF node.callable.kind = "AttributeNode"
        THEN IF IsRaise(obj.val) THEN obj
             ELSE Ret(IRMethodCall(obj.val, node.callable.attr, args.val.items,
                                   result.val), obj.g)
        ELSE IF node.callable.kind = "IdentifierNode" /\ result.g.current_class # NoneV
        THEN Ret(IRConstructorCall(node.callable.name, args.val.items, result.val),
                 result.g)
        ELSE IF IsRaise(name) THEN Ret(name, result.g)
        ELSE Ret(IRCall(name.s, args.val.items, result.val), result.g)

\* visit_IfNode, lines 218-222: the conditional jump
if_cond_jump(condition, true_label, false_label) ==
    LET last == last_result(condition)
    IN  IF condition.kind = "list"
        THEN IF IsRaise(last) THEN last ELSE IRCondJump(last, true_label, false_label)
        ELSE IRCondJump(condition, true_label, false_label)

\* visit_IfNode, lines 243-253: the list returned
if_result(condition, cond_jump, true_label, false_label, end_label, true_block, false_block) ==
    list_of((((((IF condition.kind = "list" THEN condition.items ELSE <<>>)
                \o <<cond_jump, IRLabel(true_label)>>)
               \o true_block)
              \o <<IRJump(end_label), IRLabel(false_label)>>)
             \o false_block)
            \o <<IRLabel(end_label)>>)

\* visit_IfNode
visit_IfNode(node, g) ==
    LET condition == visit(node.condition, g)
        true_label == generate_label(condition.g)
        false_label == generate_label(true_label.g)
        end_label == generate_label(false_label.g)
        cond_jump == if_cond_jump(condition.val, true_label.val, false_label.val)
        true_block == visit_statements(node.then_body, <<>>, end_label.g)
        false_block == visit_statements(node.else_body, <<>>, true_block.g)
    IN  IF IsRaise(condition.val) THEN condition
        ELSE IF IsRaise(cond_jump) THEN Ret(cond_jump, end_label.g)
        ELSE IF IsRaise(true_block.val) THEN true_block
        ELSE IF IsRaise(false_block.val) THEN false_block
        ELSE Ret(if_result(condition.val, cond_jump, true_label.val, false_label.val,
                           end_label.val, true_block.val.items, false_block.val.items),
                 false_block.g)

\* visit_WhileNode, lines 273-286: the list returned
while_result(start_label, body_label, end_label, condition, body_ir) ==
    LET cond == IF condition.kind = "list" THEN last_result(condition) ELSE condition
    IN  list_of((((<<IRLabel(start_label)>>
                   \o (IF condition.kind = "list" THEN condition.items ELSE <<>>))
                  \o <<IF IsRaise(cond) THEN cond
                       ELSE IRCondJump(cond, body_label, end_label),
                       IRLabel(body_label)>>)
                 \o body_ir)
                \o <<IRJump(start_label), IRLabel(end_label)>>)

\* visit_WhileNode
visit_WhileNode(node, g) ==
    LET start_label == generate_label(g)
        body_label == generate_label(start_label.g)
        end_label == generate_label(body_label.g)
        condition == visit(node.condition, end_label.g)
        body_ir == visit_statements(node.body, <<>>, condition.g)
    IN  IF IsRaise(condition.val) THEN condition
        ELSE IF IsRaise(body_ir.val) THEN body_ir
        ELSE Ret(while_result(start_label.val, body_label.val, end_label.val,
                              condition.val, body_ir.val.items), body_ir.g)

\* visit_ReturnNode, lines 288-297: what is returned for the visited value
return_steps(value) ==
    LET last == last_result(value)
    IN  IF value.kind = "list"
        THEN IF IsRaise(last) THEN last ELSE PyList(Append(value.items, IRReturn(last)))
        ELSE IRReturn(value)

\* visit_ReturnNode
visit_ReturnNode(node, g) ==
    LET value == visit(node.value, g)
    IN  IF node.value = NoneV THEN Ret(IRReturn(NoneV), g)
        ELSE IF IsRaise(value.val) THEN value
        ELSE Ret(return_steps(value.val), value.g)

\* generic_visit answering with a placeholder instead of raising
generic_visit_placeholder(node, g) == Ret(NoneV, g)

\* IRGenerator.generic_visit, lines 37-39
generic_visit(node, g) == Ret(Raise("NotImplementedError"), g)

\* IRGenerator.visit, lines 29-35
visit(node, g) ==
    IF node = NoneV THEN Ret(NoneV, g)
    ELSE IF node.kind \notin VisitorNames THEN generic_visit(node, g)
    ELSE CASE node.kind = "FunctionDefNode" -> visit_FunctionDefNode(node, g)
           [] node.kind = "ClassDefNode" -> visit_ClassDefNode(node, g)
           [] node.kind = "BinaryOpNode" -> visit_BinaryOpNode(node, g)
           [] node.kind = "IntLiteralNode" -> visit_IntLiteralNode(node, g)
           [] node.kind = "FloatLiteralNode" -> visit_FloatLiteralNode(node, g)
           [] node.kind = "StringLiteralNode" -> visit_StringLiteralNode(node, g)
           [] node.kind = "BoolLiteralNode" -> visit_BoolLiteralNode(node, g)
           [] node.kind = "NoneLiteralNode" -> visit_NoneLiteralNode(node, g)
           [] node.kind = "IdentifierNode" -> visit_IdentifierNode(node, g)
           [] node.kind = "AssignmentNode" -> visit_AssignmentNode(node, g)
           [] node.kind = "FunctionCallNode" -> visit_FunctionCallNode(node, g)
           [] node.kind = "IfNode" -> visit_IfNode(node, g)
           [] node.kind = "WhileNode" -> visit_WhileNode(node, g)
           [] node.kind = "ReturnNode" -> visit_ReturnNode(node, g)
           [] node.kind = "AttributeNode" -> visit_AttributeNode(node, g)

(***************************************************************************)
(* What the visits do to the tree they are given: visit_ClassDefNode       *)
(* inserts ParameterNode('self') into the parameter list of each method of *)
(* the class (line 104) before it visits the method; no other visitor      *)
(* assigns to a field of a node.  A visit that raises leaves the nodes it  *)
(* has not reached as they were.                                           *)
(***************************************************************************)
RECURSIVE after_visit(_, _)
RECURSIVE after_statements(_, _)
RECURSIVE after_methods(_, _)

\* the statements of a body after the loop "for stmt in body:
\* ir = self.visit(stmt)" (lines 77-82, 226-231, 235-240, 265-270)
after_statements(stmts, g) ==
    IF stmts = <<>> THEN <<>>
    ELSE LET r == visit(Head(stmts), g)
         IN  <<after_visit(Head(stmts), g)>>
                 \o (IF IsRaise(r.val) THEN Tail(stmts)
                     ELSE after_statements(Tail(stmts), r.g))

\* the statements of a class body after the loop of lines 101-105
after_methods(stmts, g) ==
    IF stmts = <<>> THEN <<>>
    ELSE IF Head(stmts).kind = "FunctionDefNode"
    THEN LET stmt == [Head(stmts) EXCEPT
                         !.parameters = <<ParameterNode("self")>> \o @]
             r == visit(stmt, g)
         IN  <<after_visit(stmt, g)>>
                 \o (IF IsRaise(r.val) THEN Tail(stmts)
                     ELSE after_methods(Tail(stmts), r.g))
    ELSE <<Head(stmts)>> \o after_methods(Tail(stmts), g)

\* the node after self.visit(node) with the generator's fields g
after_visit(node, g) ==
    CASE node.kind = "FunctionDefNode" ->
            [node EXCEPT !.body =
                after_statements(@, [g EXCEPT !.current_function = Str(node.name)])]
      [] node.kind = "ClassDefNode" ->
            [node EXCEPT !.body =
                after_methods(@, [g EXCEPT !.current_class = Str(node.name)])]
      [] node.kind = "IfNode" ->
            LET condition == visit(node.condition, g)
                true_label == generate_label(condition.g)
                false_label == generate_label(true_label.g)
                end_label == generate_label(false_label.g)
                cond_jump == if_cond_jump(condition.val, true_label.val, false_label.val)
                true_block == visit_statements(node.then_body, <<>>, end_label.g)
            IN  IF IsRaise(condition.val) THEN node
                ELSE IF IsRaise(cond_jump) THEN node
                ELSE [node EXCEPT
                        !.then_body = after_statements(@, end_label.g),
                        !.else_body = IF IsRaise(true_block.val) THEN @
                                      ELSE after_statements(@, true_block.g)]
      [] node.kind = "WhileNode" ->
            LET start_label == generate_label(g)
                body_label == generate_label(start_label.g)
                end_label == generate_label(body_label.g)
                condition == visit(node.condition, end_label.g)
            IN  IF IsRaise(condition.val) THEN node
                ELSE [node EXCEPT !.body = after_statements(@, condition.g)]
      [] OTHER -> node

(***************************************************************************)
(* visit_ProgramNode, lines 41-67, one action per turn of its loop        *)
(***************************************************************************)
Generator ==
    [temp_counter |-> temp_counter, label_counter |-> label_counter,
     current_function |-> current_function, current_class |-> current_class,
     temps_issued |-> temps_issued, labels_issued |-> labels_issued]

SetGenerator(g) ==
    /\ temp_counter' = g.temp_counter
    /\ label_counter' = g.label_counter
    /\ current_function' = g.current_function
    /\ current_class' = g.current_class
    /\ temps_issued' = g.temps_issued
    /\ labels_issued' = g.labels_issued

InProgramLoop == ir_pc = "loop" /\ stmt_index < Len(ast)
stmt == ast[stmt_index + 1]
Visited == visit(stmt, Generator)

\* node.statements once the statement of this turn has been visited
VisitedStatements ==
    [node_statements EXCEPT ![stmt_index + 1] = after_visit(stmt, Generator)]

\* lines 48-53: a FunctionDefNode statement
ProgramFunctionDef ==
    /\ InProgramLoop /\ stmt.kind = "FunctionDefNode" /\ ~IsRaise(Visited.val)
    /\ functions' = extend_or_append(functions, Visited.val)
    /\ SetGenerator(Visited.g)
    /\ node_statements' = VisitedStatements
    /\ stmt_index' = stmt_index + 1
    /\ UNCHANGED <<ast, main_body, program, ir_pc>>
    /\ UNCHANGED <<lexVars, parseVars>>

\* lines 54-60: any other statement
ProgramStatement ==
    /\ InProgramLoop /\ stmt.kind # "FunctionDefNode" /\ ~IsRaise(Visited.val)
    /\ main_body' = extend_or_append(main_body, Visited.val)
    /\ SetGenerator(Visited.g)
    /\ node_statements' = VisitedStatements
    /\ stmt_index' = stmt_index + 1
    /\ UNCHANGED <<ast, functions, program, ir_pc>>
    /\ UNCHANGED <<lexVars, parseVars>>

\* lines 49 and 56: the visit raises and the exception leaves visit_ProgramNode
ProgramRaise ==
    /\ InProgramLoop /\ IsRaise(Visited.val)
    /\ SetGenerator(Visited.g)
    /\ node_statements' = VisitedStatements
    /\ program' = Visited.val
    /\ ir_pc' = "raised"
    /\ UNCHANGED <<ast, stmt_index, functions, main_body>>
    /\ UNCHANGED <<lexVars, parseVars>>

\* lines 62-67
ProgramReturn ==
    /\ ir_pc = "loop" /\ stmt_index >= Len(ast)
    /\ functions' = IF main_body # <<>>
                    THEN Append(functions, IRFunction("main", <<>>, main_body))
                    ELSE functions
    /\ program' = IRProgram(functions')
    /\ ir_pc' = "returned"
    /\ UNCHANGED <<ast, node_statements, stmt_index, main_body, temp_counter,
                   label_counter, current_function, current_class, temps_issued,
                   labels_issued>>
    /\ UNCHANGED <<lexVars, parseVars>>

(***************************************************************************)
(* The programs the generator is run on                                    *)
(***************************************************************************)
Id(n) == IdentifierNode(n)
Num(v) == IntLiteralNode(v)

ExprLeaves == {Num(1), Id("a")}

\* The expressions with exactly n operator or call nodes
RECURSIVE ExprN(_)
ExprN(n) ==
    IF n = 0 THEN ExprLeaves
    ELSE LET splits == {<<i, n - 1 - i>> : i \in 0..(n - 1)}
             pairs == UNION {ExprN(p[1]) \X ExprN(p[2]) : p \in splits}
         IN  {BinaryOpNode("+", q[1], q[2]) : q \in pairs}
             \cup {FunctionCallNode(Id("f"), <<q[1], q[2]>>) : q \in pairs}
             \cup {FunctionCallNode(Id("f"), <<e>>) : e \in ExprN(n - 1)}
             \cup (IF n = 1 THEN {FunctionCallNode(Id("f"), <<>>)} ELSE {})

\* The expressions with at most max_nodes operator or call nodes
Exprs(max_nodes) == UNION {ExprN(n) : n \in 0..max_nodes}

ExprPrograms(max_nodes) ==
    {<<AssignmentNode(Id("x"), e)>> : e \in Exprs(max_nodes)}
    \cup {<<FunctionDefNode("g", <<>>, <<ReturnNode(e)>>)>> : e \in Exprs(max_nodes)}
    \cup {<<e>> : e \in Exprs(max_nodes)}

NGreaterZero == BinaryOpNode(">", Id("n"), Num(0))
XLessTen == BinaryOpNode("<", Id("x"), Num(10))
Decrement == AssignmentNode(Id("n"), BinaryOpNode("-", Id("n"), Num(1)))

\* x = 1 + 2 * 3
ScenarioA == AssignmentNode(Id("x"), BinaryOpNode("+", Num(1), BinaryOpNode("*", Num(2), Num(3))))
\* def add(a, b): return a + b
ScenarioB == FunctionDefNode("add", <<ParameterNode("a"), ParameterNode("b")>>,
                             <<ReturnNode(BinaryOpNode("+", Id("a"), Id("b")))>>)
\* p.greet()
ScenarioC == FunctionCallNode(AttributeNode(Id("p"), "greet"), <<>>)
\* if x < 10: y = 1 else: y = 2
ScenarioD == IfNode(XLessTen, <<AssignmentNode(Id("y"), Num(1))>>,
                    <<AssignmentNode(Id("y"), Num(2))>>)
\* while n > 0: n = n - 1
ScenarioE == WhileNode(NGreaterZero, <<Decrement>>)
\* class P with __init__(self, n): self.n = n and g(self): return P()
ScenarioF ==
    ClassDefNode("P",
        <<FunctionDefNode("__init__", <<ParameterNode("self"), ParameterNode("n")>>,
              <<AssignmentNode(AttributeNode(Id("self"), "n"), Id("n"))>>),
          FunctionDefNode("g", <<ParameterNode("self")>>,
              <<ReturnNode(FunctionCallNode(Id("P"), <<>>))>>)>>)

TopStatements ==
    {ScenarioA, ScenarioB, ScenarioC, ScenarioD, ScenarioE, ScenarioF,
     \* if x < 10: (while n > 0: n = n - 1)
     IfNode(XLessTen, <<ScenarioE>>, <<>>),
     \* def h(): while n > 0: (if x < 10: y = 1 else: y = 2)
     FunctionDefNode("h", <<>>, <<WhileNode(NGreaterZero, <<ScenarioD>>)>>),
     \* y = 1
     AssignmentNode(Id("y"), Num(1)),
     \* pass
     PassNode,
     \* return
     ReturnNode(NoneV),
     \* class Q: y = 1
     ClassDefNode("Q", <<AssignmentNode(Id("y"), Num(1))>>)}

StatementPrograms(max_stmts) == SeqsUpTo(TopStatements, max_stmts) \ {<<>>}

\* Statements with calls inside and outside a class
CallStatements ==
    {ScenarioF, ScenarioC,
     \* class R with m(self): f(); p.greet()
     ClassDefNode("R",
         <<FunctionDefNode("m", <<ParameterNode("self")>>,
               <<FunctionCallNode(Id("f"), <<>>), ScenarioC>>)>>),
     \* def k(): return f()
     FunctionDefNode("k", <<>>, <<ReturnNode(FunctionCallNode(Id("f"), <<>>))>>),
     \* f(1)
     FunctionCallNode(Id("f"), <<Num(1)>>)}

CallPrograms(max_stmts) == SeqsUpTo(CallStatements, max_stmts) \ {<<>>}

\* The nodes for which IRGenerator has no visit_ method
UnsupportedExprs == {ListNode(<<>>), DictNode(<<>>), SubscriptNode(Id("a"), Num(0))}
UnsupportedNodes ==
    {PassNode, BreakNode, ContinueNode, ForNode(Id("i"), Id("a"), <<PassNode>>),
     ImportNode("m", ""), FromImportNode("m", <<<<"*", "">>>>)}
    \cup UnsupportedExprs

\* The statements that hold the node u in an expression
ExprContexts(u) ==
    {AssignmentNode(Id("x"), u), AssignmentNode(u, Num(1)),
     BinaryOpNode("+", Id("a"), u), BinaryOpNode("+", u, Id("a")),
     FunctionCallNode(Id("f"), <<Id("a"), u>>),
     FunctionDefNode("g", <<>>, <<ReturnNode(u)>>)}

\* The statements that hold the statement u in a block
BlockContexts(u) ==
    {u,
     FunctionDefNode("g", <<>>, <<AssignmentNode(Id("y"), Num(1)), u>>),
     IfNode(XLessTen, <<u>>, <<>>),
     IfNode(XLessTen, <<AssignmentNode(Id("y"), Num(1))>>, <<u>>),
     WhileNode(NGreaterZero, <<u>>),
     ClassDefNode("Q", <<FunctionDefNode("m", <<ParameterNode("self")>>, <<u>>)>>),
     ClassDefNode("Q", <<u>>)}

UnsupportedStatements ==
    UNION {BlockContexts(u) : u \in UnsupportedNodes}
    \cup UNION {ExprContexts(u) : u \in UnsupportedExprs}

UnsupportedPrograms ==
    {<<s>> : s \in UnsupportedStatements}
    \cup {<<ScenarioA, s>> : s \in UnsupportedStatements}
    \cup {<<ScenarioB, s, ScenarioA>> : s \in UnsupportedStatements}

\* The programs of at most max_stmts statements of the families above and
\* the programs of one expression of at most max_nodes nodes
Programs(max_stmts, max_nodes) ==
    ((StatementPrograms(max_stmts) \cup ExprPrograms(max_nodes)) \cup CallPrograms(max_stmts))
        \cup UnsupportedPrograms

LexIdle ==
    /\ source = <<>> /\ position = 0 /\ indentation_levels = <<0>>
    /\ at_line_start = TRUE /\ tokens = <<>> /\ lex_pc = "idle"

\* IRGenerator.__init__ and the entry of visit_ProgramNode, lines 11-15, 43-44
Init ==
    /\ ast \in Programs(MaxStmts, MaxNodes)
    /\ node_statements = ast
    /\ stmt_index = 0
    /\ functions = <<>>
    /\ main_body = <<>>
    /\ temp_counter = NewGenerator.temp_counter
    /\ label_counter = NewGenerator.label_counter
    /\ current_function = NewGenerator.current_function
    /\ current_class = NewGenerator.current_class
    /\ temps_issued = <<>>
    /\ labels_issued = <<>>
    /\ program = NoneV
    /\ ir_pc = "loop"
    /\ LexIdle
    /\ ParseIdle

Next == ProgramFunctionDef \/ ProgramStatement \/ ProgramRaise \/ ProgramReturn

Spec == Init /\ [][Next]_vars

(***************************************************************************)
(* The token lists the parser is run on: what Lexer.tokenize gives for     *)
(* the source texts below, written as their words                          *)
(***************************************************************************)
NEWLINE == Token("NEWLINE", "\\n")
INDENT == Token("INDENT", "")
DEDENT == Token("DEDENT", "")
END == Token("END", "")

\* Lexer.keywords and the operator branches of Lexer.tokenize: the token of
\* a word; a word that is neither a keyword nor an operator is a name
Lexeme(word) ==
    CASE word = "if" -> Token("IF", word)
      [] word = "elif" -> Token("ELIF", word)
      [] word = "else" -> Token("ELSE", word)
      [] word = "while" -> Token("WHILE", word)
      [] word = "not" -> Token("NOT", word)
      [] word = "and" -> Token("AND", word)
      [] word = "or" -> Token("OR", word)
      [] word = "+" -> Token("PLUS", word)
      [] word = "-" -> Token("MINUS", word)
      [] word = "*" -> Token("MUL", word)
      [] word = "/" -> Token("DIV", word)
      [] word = "**" -> Token("POWER", word)
      [] word = "==" -> Token("EQ", word)
      [] word = "<" -> Token("LT", word)
      [] word = "=" -> Token("ASSIGN", word)
      [] word = "+=" -> Token("PLUS_ASSIGN", word)
      [] word = "-=" -> Token("MINUS_ASSIGN", word)
      [] word = "*=" -> Token("MUL_ASSIGN", word)
      [] word = "/=" -> Token("DIV_ASSIGN", word)
      [] word = "," -> Token("COMMA", word)
      [] word = ";" -> Token("SEMICOLON", word)
      [] word = ":" -> Token("COLON", word)
      [] word = "(" -> Token("LPAREN", word)
      [] word = ")" -> Token("RPAREN", word)
      [] OTHER -> Token("IDENTIFIER", word)

Lex(words) == [i \in 1..Len(words) |-> Lexeme(words[i])]

\* Expressions without parentheses: up to MaxOperands names joined by
\* infix operators of every level, up to MaxPrefixes of the names with a
\* prefix operator
OperandNames == <<"a", "b", "c", "d">>
InfixWords == {"=", "or", "and", "==", "<", "+", "-", "*", "**"}
PrefixWords == {<<"-">>, <<"not">>}

\* the texts of the names i..n with at most k prefix operators
RECURSIVE Chains(_, _, _)
Chains(i, n, k) ==
    LET plain == IF i = n THEN {<<OperandNames[i]>>}
                 ELSE {<<OperandNames[i], o>> \o rest :
                          o \in InfixWords, rest \in Chains(i + 1, n, k)}
        prefixed == IF k = 0 THEN {}
                    ELSE IF i = n THEN {p \o <<OperandNames[i]>> : p \in PrefixWords}
                    ELSE {(p \o <<OperandNames[i], o>>) \o rest :
                             p \in PrefixWords, o \in InfixWords,
                             rest \in Chains(i + 1, n, k - 1)}
    IN  plain \cup prefixed

ExpressionTexts == UNION {Chains(1, n, MaxPrefixes) : n \in 1..MaxOperands}
ExpressionInputs == {Lex(w) \o <<NEWLINE, END>> : w \in ExpressionTexts}

\* `a op= e` on one line and `a = a op ( e )` on the next, e an expression
\* over the other names
CompoundWords == {"+=", "-=", "*=", "/="}
PlainOperator(word) ==
    CASE word = "+=" -> "+" [] word = "-=" -> "-" [] word = "*=" -> "*" [] word = "/=" -> "/"
ValueTexts == UNION {Chains(2, n, MaxPrefixes) : n \in 2..MaxOperands}
CompoundInput(op, e) ==
    ((Lex(<<"a", op>> \o e) \o <<NEWLINE>>)
        \o Lex((<<"a", "=", "a", PlainOperator(op), "(">> \o e) \o <<")">>))
        \o <<NEWLINE, END>>
CompoundInputs == {CompoundInput(op, e) : op \in CompoundWords, e \in ValueTexts}

\* if chains: `if a:` and its block, n elif clauses, an optional else
ConditionNames == <<"a", "b", "c", "d", "e">>
BodyNames == <<"u", "v", "w", "x", "y", "z">>
Block(i, inline) ==
    IF inline THEN <<Lexeme(":"), Lexeme(BodyNames[i]), NEWLINE>>
    ELSE <<Lexeme(":"), NEWLINE, INDENT, Lexeme(BodyNames[i]), NEWLINE, DEDENT>>

RECURSIVE ElifClauses(_, _, _)
ElifClauses(i, n, inline) ==
    IF i > n THEN <<>>
    ELSE (<<Lexeme("elif"), Lexeme(ConditionNames[i + 1])>> \o Block(i + 1, inline))
            \o ElifClauses(i + 1, n, inline)

IfChain(n, has_else, inline) ==
    (((<<Lexeme("if"), Lexeme(ConditionNames[1])>> \o Block(1, inline))
        \o ElifClauses(1, n, inline))
        \o (IF has_else THEN <<Lexeme("else")>> \o Block(n + 2, inline) ELSE <<>>))
        \o <<END>>
IfInputs == {IfChain(n, e, i) : n \in 0..MaxElifs, e \in BOOLEAN, i \in BOOLEAN}

\* calls `f(...)` with up to MaxArgs arguments, plain or of the form
\* name = value
ArgumentTexts == {<<"a">>, <<"k", "=", "b">>, <<"j", "=", "c">>}

RECURSIVE JoinArguments(_)
JoinArguments(args) ==
    IF Len(args) = 1 THEN args[1]
    ELSE (args[1] \o <<",">>) \o JoinArguments(Tail(args))

CallInput(args) == Lex((<<"f", "(">> \o JoinArguments(args)) \o <<")">>) \o <<NEWLINE, END>>
CallInputs == {CallInput(args) : args \in SeqsUpTo(ArgumentTexts, MaxArgs) \ {<<>>}}

\* programs of up to MaxStmts top-level statements, well-formed or not;
\* node is the tree of a well-formed statement and NoneV for the others
Chunk(toks, node) == [tokens |-> toks, node |-> node]
Chunks ==
    {Chunk(Lex(<<"a", "=", "b">>) \o <<NEWLINE>>,
           AssignmentNode(IdentifierNode("a"), IdentifierNode("b"))),
     Chunk(Lex(<<"c">>) \o <<NEWLINE>>, IdentifierNode("c")),
     Chunk(Lex(<<"if", "a">>) \o Block(1, FALSE),
           IfNode(IdentifierNode("a"), <<IdentifierNode("u")>>, <<>>)),
     Chunk(Lex(<<"a", "=", ")">>) \o <<NEWLINE>>, NoneV),
     Chunk(Lex(<<")", "b">>) \o <<NEWLINE>>, NoneV),
     Chunk(Lex(<<"if", ")">>) \o Block(1, FALSE), NoneV)}

RECURSIVE ChunkTokens(_)
ChunkTokens(chunks) ==
    IF chunks = <<>> THEN <<END>> ELSE chunks[1].tokens \o ChunkTokens(Tail(chunks))

RECURSIVE ChunkNodes(_)
ChunkNodes(chunks) ==
    IF chunks = <<>> THEN <<>>
    ELSE (IF chunks[1].node = NoneV THEN <<>> ELSE <<chunks[1].node>>)
            \o ChunkNodes(Tail(chunks))

ChunkPrograms == SeqsUpTo(Chunks, MaxStmts) \ {<<>>}
RecoveryInputs == {ChunkTokens(p) : p \in ChunkPrograms}

\* a block header, up to MaxBlankLines blank lines, an indented body of one
\* or two lines of which some are the ill-formed `)`, and the top-level
\* statement `b` after the block
HeaderTexts == {<<"if", "a">>, <<"while", "a">>}
BodyTexts == SeqsUpTo({"u", "v", ")"}, 2) \ {<<>>}

RECURSIVE BodyLines(_)
BodyLines(words) ==
    IF words = <<>> THEN <<>>
    ELSE <<Lexeme(Head(words)), NEWLINE>> \o BodyLines(Tail(words))

BlockInput(header, blank, body) ==
    ((((Lex(header) \o <<Lexeme(":"), NEWLINE>>) \o [i \in 1..blank |-> NEWLINE])
        \o <<INDENT>>) \o BodyLines(body))
        \o <<DEDENT, Lexeme("b"), NEWLINE, END>>
BlockInputs ==
    {BlockInput(h, k, b) : h \in HeaderTexts, k \in 0..MaxBlankLines, b \in BodyTexts}

\* Parser.parse takes any list of tokens: the lists of up to MaxTokens
\* tokens of any shape, closed by END
AnyTokens == {Lexeme("a"), Lexeme(";"), Lexeme(":"), Lexeme("if"), NEWLINE, INDENT, DEDENT}
AnyInputs == {toks \o <<END>> : toks \in SeqsUpTo(AnyTokens, MaxTokens)}

ParserInputs ==
    (((((ExpressionInputs \cup CompoundInputs) \cup IfInputs) \cup CallInputs)
        \cup RecoveryInputs) \cup BlockInputs) \cup AnyInputs

(***************************************************************************)
(* Parser.parse, lines 40-54, one action per turn of its while loop        *)
(***************************************************************************)
\* Parser.__init__, lines 5-7, and line 42
InitParse ==
    /\ parser_tokens \in ParserInputs
    /\ parser_current = 0
    /\ ast_nodes = <<>>
    /\ errors_printed = 0
    /\ parse_pc = "loop"
    /\ LexIdle
    /\ IrIdle

Statement == parse_statement(parser_tokens, parser_current)

\* lines 44, 46-48: the statement is parsed and its node, if any, appended
ParseStatement ==
    /\ parse_pc = "loop"
    /\ peek_type(parser_tokens, parser_current) \notin {"END", "None"}
    /\ ~Statement.raised
    /\ ast_nodes' = IF Statement.val = NoneV THEN ast_nodes
                    ELSE Append(ast_nodes, Statement.val)
    /\ parser_current' = Statement.current
    /\ UNCHANGED <<parser_tokens, errors_printed, parse_pc>>
    /\ UNCHANGED <<lexVars, irVars>>

\* lines 44, 49-52: the statement raises, the error is printed and
\* synchronize moves the cursor
ParseError ==
    /\ parse_pc = "loop"
    /\ peek_type(parser_tokens, parser_current) \notin {"END", "None"}
    /\ Statement.raised
    /\ errors_printed' = errors_printed + 1
    /\ parser_current' = synchronize(parser_tokens, Statement.current)
    /\ UNCHANGED <<parser_tokens, ast_nodes, parse_pc>>
    /\ UNCHANGED <<lexVars, irVars>>

\* lines 44, 54: the loop ends at END and parse returns ast_nodes
ParseReturn ==
    /\ parse_pc = "loop"
    /\ peek_type(parser_tokens, parser_current) \in {"END", "None"}
    /\ parse_pc' = "returned"
    /\ UNCHANGED <<parser_tokens, parser_current, ast_nodes, errors_printed>>
    /\ UNCHANGED <<lexVars, irVars>>

NextParse == ParseStatement \/ ParseError \/ ParseReturn

SpecParse == InitParse /\ [][NextParse]_vars

\* The token lists on which parse takes several turns or meets an error:
\* the lists of any shape, the lines with errors, the blocks, the if
\* chains and the calls
LoopInputs ==
    (((AnyInputs \cup RecoveryInputs) \cup BlockInputs) \cup IfInputs) \cup CallInputs

InitLoop ==
    /\ parser_tokens \in LoopInputs
    /\ parser_current = 0
    /\ ast_nodes = <<>>
    /\ errors_printed = 0
    /\ parse_pc = "loop"
    /\ LexIdle
    /\ IrIdle

\* Parser.parse is a sequential loop: a turn that can be taken is taken
FairSpecParse == InitLoop /\ [][NextParse]_vars /\ WF_vars(NextParse)

(***************************************************************************)
(* CLAIMS ABOUT THE LEXER (checked under SpecLex)                          *)
(***************************************************************************)
Count(toks, type) == Cardinality({i \in 1..Len(toks) : toks[i].type = type})
Balance(toks) == Count(toks, "INDENT") - Count(toks, "DEDENT")

\* The number of DEDENT tokens that end toks once its last token is removed
RECURSIVE FinalDedents(_)
FinalDedents(toks) ==
    IF Len(toks) > 0 /\ toks[Len(toks)].type = "DEDENT"
    THEN 1 + FinalDedents(SubSeq(toks, 1, Len(toks) - 1))
    ELSE 0

\* C1: while tokenize has not raised, the INDENT tokens emitted minus the
\* DEDENT tokens emitted equal the depth of the indentation stack minus one,
\* no prefix of the tokens has more DEDENTs than INDENTs, and the difference
\* is zero once tokenize has returned.
C1_IndentDedentBalance ==
    lex_pc \in {"loop", "eof", "done"} =>
        /\ Balance(tokens) = Len(indentation_levels) - 1
        /\ \A k \in 0..Len(tokens) : Balance(SubSeq(tokens, 1, k)) >= 0
        /\ lex_pc = "done" => Balance(tokens) = 0

\* C1's case: a lex that returned after an INDENT and a DEDENT emitted by
\* handle_indentation in the middle of the source
C1_Witness ==
    /\ lex_pc = "done"
    /\ \E i, j \in 1..Len(tokens) :
          /\ i < j /\ j < Len(tokens) - 1
          /\ tokens[i].type = "INDENT" /\ tokens[j].type = "DEDENT"
          /\ tokens[j + 1].type = "IDENTIFIER"

\* C2: once tokenize has reached the end of the input it emits one DEDENT
\* for each indentation-stack entry above the bottom one, popping it, and
\* then END; END is the last token and occurs nowhere else, and the DEDENTs
\* that precede it close exactly the indentation open before them.
C2_FinalDedentsThenEnd ==
    [][/\ (lex_pc = "eof" /\ Len(indentation_levels) > 1) =>
              /\ tokens' = Append(tokens, Token("DEDENT", ""))
              /\ Len(indentation_levels') = Len(indentation_levels) - 1
              /\ lex_pc' = "eof"
       /\ (lex_pc = "eof" /\ Len(indentation_levels) = 1) =>
              /\ tokens' = Append(tokens, Token("END", ""))
              /\ lex_pc' = "done"
       /\ lex_pc' # "done" => Count(tokens', "END") = 0
       /\ lex_pc' = "done" =>
              LET n == Len(tokens')
                  k == FinalDedents(SubSeq(tokens', 1, n - 1))
              IN  /\ tokens'[n].type = "END"
                  /\ Count(tokens', "END") = 1
                  /\ Balance(SubSeq(tokens', 1, n - 1 - k)) = k
      ]_vars

\* C2's case: a lex that returned with two entries above the bottom of the
\* stack at the end of the input
C2_Witness ==
    /\ lex_pc = "done" /\ Len(tokens) >= 4
    /\ tokens[Len(tokens)].type = "END"
    /\ tokens[Len(tokens) - 1].type = "DEDENT"
    /\ tokens[Len(tokens) - 2].type = "DEDENT"

(***************************************************************************)
(* CLAIMS ABOUT THE IR GENERATOR (checked under Spec)                      *)
(***************************************************************************)
NoDuplicates(names) ==
    \A i, j \in 1..Len(names) : names[i] = names[j] => i = j

\* C3: within one translation generate_temp and generate_label never hand
\* out a name twice, over all the functions of the program: each counter
\* equals the number of names handed out, so it was never reset.
C3_UniqueTempsAndLabels ==
    /\ NoDuplicates(temps_issued)
    /\ NoDuplicates(labels_issued)
    /\ Len(temps_issued) = temp_counter
    /\ Len(labels_issued) = label_counter

\* C3's case: temporaries handed out in a function and in main, and
\* the labels of two nested control statements
C3_Witness ==
    /\ Len(functions) >= 1
    /\ \E i \in 1..Len(functions[1].body) : functions[1].body[i].kind = "IRBinaryOp"
    /\ Len(main_body) >= 1
    /\ main_body[1].kind = "IRBinaryOp"
    /\ Len(temps_issued) >= 4
    /\ Len(labels_issued) >= 6

\* The Label instruction of the specification
Label(name) == [kind |-> "IRLabel", name |-> name]

IsLeafOperand(x) == x.kind \in {"IRConstant", "IRVariable", "str"}

\* The operand fields of an instruction
Operands(instr) ==
    CASE instr.kind = "IRBinaryOp" -> <<instr.left, instr.right>>
      [] instr.kind = "IRStore" -> <<instr.source>>
      [] instr.kind = "IRReturn" -> IF instr.value = NoneV THEN <<>> ELSE <<instr.value>>
      [] instr.kind = "IRCondJump" -> <<instr.condition>>
      [] instr.kind \in {"IRCall", "IRConstructorCall"} -> instr.args
      [] instr.kind = "IRMethodCall" -> <<instr.obj>> \o instr.args
      [] OTHER -> <<>>

\* The instruction lists built so far: the bodies of the functions, the
\* body of main, and the bodies of the functions that main's body holds
Bodies ==
    {functions[i].body : i \in {j \in 1..Len(functions) : functions[j].kind = "IRFunction"}}
    \cup {main_body}
    \cup {main_body[i].body : i \in {j \in 1..Len(main_body) : main_body[j].kind = "IRFunction"}}

RECURSIVE ContainsKind(_, _)
\* Whether a statement, or a statement of one of its blocks, is of a kind
ContainsKind(node, kinds) ==
    \/ node.kind \in kinds
    \/ /\ node.kind \in {"FunctionDefNode", "ClassDefNode", "WhileNode"}
       /\ \E i \in 1..Len(node.body) : ContainsKind(node.body[i], kinds)
    \/ /\ node.kind = "IfNode"
       /\ \/ \E i \in 1..Len(node.then_body) : ContainsKind(node.then_body[i], kinds)
          \/ \E i \in 1..Len(node.else_body) : ContainsKind(node.else_body[i], kinds)

HasControlFlow == \E i \in 1..Len(ast) : ContainsKind(ast[i], {"IfNode", "WhileNode"})
HasUnsupported == \E i \in 1..Len(ast) : ContainsKind(ast[i], {"PassNode"})
Finished == ir_pc \in {"returned", "raised"}

LabelsDefinedOnce(body) ==
    \A i \in 1..Len(body) :
        LET targets == IF body[i].kind = "IRJump" THEN {body[i].target}
                       ELSE IF body[i].kind = "IRCondJump"
                       THEN {body[i].true_target, body[i].false_target}
                       ELSE {}
        IN  \A l \in targets :
                Cardinality({j \in 1..Len(body) : body[j] = Label(l)}) = 1

C5_OperandsAreLeaves ==
    \A body \in Bodies :
        \A i \in 1..Len(body) :
            \A k \in 1..Len(Operands(body[i])) : IsLeafOperand(Operands(body[i])[k])

RECURSIVE IsBinTree(_)
\* An expression built from binary operators, literals and identifiers only
IsBinTree(e) ==
    \/ e.kind \in {"IntLiteralNode", "IdentifierNode"}
    \/ e.kind = "BinaryOpNode" /\ IsBinTree(e.left) /\ IsBinTree(e.right)

RECURSIVE BinCount(_)
\* The number of binary operators of such an expression
BinCount(e) ==
    IF e.kind = "BinaryOpNode" THEN (BinCount(e.left) + BinCount(e.right)) + 1 ELSE 0

\* The operand that stands for a literal or an identifier
LeafOperand(e) ==
    IF e.kind = "IntLiteralNode" THEN IRConstant(e.value) ELSE IRVariable(e.name)

RECURSIVE TreeOf(_, _)
\* The expression that instruction i of a list of BinaryOp instructions
\* computes, a temporary standing for the instruction before i that set it
TreeOf(instrs, i) ==
    LET tree(x) ==
            IF x.kind = "IRConstant" THEN IntLiteralNode(x.value)
            ELSE IF x.kind = "IRVariable" THEN IdentifierNode(x.name)
            ELSE TreeOf(instrs, CHOOSE j \in 1..(i - 1) : instrs[j].result = x.s)
    IN  BinaryOpNode(instrs[i].op, tree(instrs[i].left), tree(instrs[i].right))

\* Instructions lo..hi are BinaryOps with leaf operands whose temporaries
\* are set by earlier instructions of lo..hi
ClosedBinaryOps(instrs, lo, hi) ==
    \A i \in lo..hi :
        /\ instrs[i].kind = "IRBinaryOp"
        /\ \A x \in {instrs[i].left, instrs[i].right} :
               /\ IsLeafOperand(x)
               /\ x.kind = "str" => \E j \in lo..(i - 1) : instrs[j].result = x.s

\* C6: for x = L op R with L and R built from binary operators, the list
\* holds the instructions of L, then those of R, then the one BinaryOp of
\* the result, whose operands are leaves (the destination of the operand's
\* last instruction when the operand is an operation), then the store;
\* x = 1 + 2 * 3 gives t0 = 2 * 3, t1 = 1 + t0, store t1 -> x.
C6_LeftThenRightThenResult ==
    (/\ ir_pc = "returned" /\ Len(ast) = 1
     /\ ast[1].kind = "AssignmentNode" /\ ast[1].target = Id("x")
     /\ ast[1].value.kind = "BinaryOpNode" /\ IsBinTree(ast[1].value)) =>
        LET e == ast[1].value
            nL == BinCount(e.left)
            nR == BinCount(e.right)
            n == (nL + nR) + 1
        IN  /\ Len(main_body) = n + 1
            /\ ClosedBinaryOps(main_body, 1, nL)
            /\ ClosedBinaryOps(main_body, nL + 1, nL + nR)
            /\ ClosedBinaryOps(main_body, 1, n)
            /\ IF nL > 0
               THEN /\ TreeOf(main_body, nL) = e.left
                    /\ main_body[n].left = Str(main_body[nL].result)
               ELSE main_body[n].left = LeafOperand(e.left)
            /\ IF nR > 0
               THEN /\ TreeOf(main_body, nL + nR) = e.right
                    /\ main_body[n].right = Str(main_body[nL + nR].result)
               ELSE main_body[n].right = LeafOperand(e.right)
            /\ main_body[n].op = e.op
            /\ main_body[n + 1] = IRStore(Str(main_body[n].result), "x")
            /\ ast = <<ScenarioA>> =>
                   main_body = <<IRBinaryOp("*", IRConstant(2), IRConstant(3), "t0"),
                                 IRBinaryOp("+", IRConstant(1), Str("t0"), "t1"),
                                 IRStore(Str("t1"), "x")>>

\* C6's case: an assignment whose value has two different operations as
\* its operands has been lowered
C6_Witness ==
    /\ ir_pc = "returned" /\ Len(ast) = 1
    /\ ast[1].kind = "AssignmentNode"
    /\ ast[1].value.kind = "BinaryOpNode" /\ IsBinTree(ast[1].value)
    /\ ast[1].value.left.kind = "BinaryOpNode"
    /\ ast[1].value.right.kind = "BinaryOpNode"
    /\ ast[1].value.left # ast[1].value.right
    /\ Len(main_body) = 4

RECURSIVE NodeCount(_)
\* The number of operator and call nodes of an expression, one instruction each
NodeCount(e) ==
    IF e.kind = "BinaryOpNode" THEN (NodeCount(e.left) + NodeCount(e.right)) + 1
    ELSE IF e.kind = "FunctionCallNode"
    THEN LET RECURSIVE sum(_)
             sum(k) == IF k = 0 THEN 0 ELSE sum(k - 1) + NodeCount(e.arguments[k])
         IN  sum(Len(e.arguments)) + 1
    ELSE 0

RECURSIVE NodesUpTo(_, _)
\* The number of instructions of the first k arguments
NodesUpTo(arguments, k) ==
    IF k = 0 THEN 0 ELSE NodesUpTo(arguments, k - 1) + NodeCount(arguments[k])

\* C7: for the statement f(a1, .., an) the call instruction comes last, after
\* the instructions of the arguments in source order; its args list holds n
\* operands, the k-th being the k-th argument's leaf or the destination of
\* the last instruction of the k-th argument.
C7_ArgumentsInOrder ==
    (ir_pc = "returned" /\ Len(ast) = 1 /\ ast[1].kind = "FunctionCallNode") =>
        LET arguments == ast[1].arguments
            n == Len(arguments)
            call == main_body[Len(main_body)]
        IN  /\ Len(main_body) = NodeCount(ast[1])
            /\ call.kind \in {"IRCall", "IRMethodCall", "IRConstructorCall"}
            /\ Len(call.args) = n
            /\ \A k \in 1..n :
                   IF NodeCount(arguments[k]) = 0
                   THEN call.args[k] = LeafOperand(arguments[k])
                   ELSE call.args[k] = Str(main_body[NodesUpTo(arguments, k)].result)

\* A block without if and while statements
Straight(stmts) ==
    \A i \in 1..Len(stmts) : ~ContainsKind(stmts[i], {"IfNode", "WhileNode", "PassNode"})

\* The instructions and the operand of a lowered condition
InstructionsOf(val) == IF val.kind = "list" THEN val.items ELSE <<>>
OperandOf(val) == IF val.kind = "list" THEN last_result(val) ELSE val

\* C8: the statement if cond: then else: else is lowered to the
\* instructions of cond, CondJump(opC, T, F), Label(T), those of then,
\* Jump(E), Label(F), those of else, Label(E), with T, F, E three fresh
\* labels; Scenario D gives t0 = x < 10, CondJump(t0, L0, L1), Label(L0),
\* store 1 -> y, Jump(L2), Label(L1), store 2 -> y, Label(L2).
C8_IfLayout ==
    (/\ Finished /\ Len(ast) = 1 /\ ast[1].kind = "IfNode"
     /\ Straight(ast[1].then_body) /\ Straight(ast[1].else_body)) =>
        /\ ir_pc = "returned"
        /\ LET cond == visit(ast[1].condition, NewGenerator)
               T == generate_label(cond.g)
               F == generate_label(T.g)
               E == generate_label(F.g)
               then == visit_statements(ast[1].then_body, <<>>, E.g)
               else == visit_statements(ast[1].else_body, <<>>, then.g)
           IN  /\ Cardinality({T.val, F.val, E.val}) = 3
               /\ main_body =
                      ((((InstructionsOf(cond.val)
                          \o <<IRCondJump(OperandOf(cond.val), T.val, F.val),
                               Label(T.val)>>)
                         \o then.val.items)
                        \o <<IRJump(E.val), Label(F.val)>>)
                       \o else.val.items)
                      \o <<Label(E.val)>>
        /\ ast = <<ScenarioD>> =>
               main_body = <<IRBinaryOp("<", IRVariable("x"), IRConstant(10), "t0"),
                             IRCondJump(Str("t0"), "L0", "L1"), Label("L0"),
                             IRStore(IRConstant(1), "y"), IRJump("L2"), Label("L1"),
                             IRStore(IRConstant(2), "y"), Label("L2")>>

\* C9: the statement while cond: body is lowered to Label(S), the
\* instructions of cond, CondJump(opC, B, E), Label(B), those of body,
\* Jump(S), Label(E), the three labels being allocated before cond and body
\* are lowered; Scenario E gives Label(L0), t0 = n > 0, CondJump(t0, L1, L2),
\* Label(L1), t1 = n - 1, store t1 -> n, Jump(L0), Label(L2).
C9_WhileLayout ==
    (/\ Finished /\ Len(ast) = 1 /\ ast[1].kind = "WhileNode"
     /\ Straight(ast[1].body)) =>
        /\ ir_pc = "returned"
        /\ LET S == generate_label(NewGenerator)
               B == generate_label(S.g)
               E == generate_label(B.g)
               cond == visit(ast[1].condition, E.g)
               body == visit_statements(ast[1].body, <<>>, cond.g)
           IN  main_body =
                   (((<<Label(S.val)>> \o InstructionsOf(cond.val))
                     \o <<IRCondJump(OperandOf(cond.val), B.val, E.val), Label(B.val)>>)
                    \o body.val.items)
                   \o <<IRJump(S.val), Label(E.val)>>
        /\ ast = <<ScenarioE>> =>
               main_body = <<Label("L0"),
                             IRBinaryOp(">", IRVariable("n"), IRConstant(0), "t0"),
                             IRCondJump(Str("t0"), "L1", "L2"), Label("L1"),
                             IRBinaryOp("-", IRVariable("n"), IRConstant(1), "t1"),
                             IRStore(Str("t1"), "n"), IRJump("L0"), Label("L2")>>

RECURSIVE DefNames(_)
\* The names of the top-level functions and of the methods of the top-level
\* classes of a statement list, in source order
DefNames(stmts) ==
    IF stmts = <<>> THEN <<>>
    ELSE LET node == Head(stmts)
             methods == SelectSeq(node.body, LAMBDA m : m.kind = "FunctionDefNode")
         IN  (IF node.kind = "FunctionDefNode" THEN <<node.name>>
              ELSE IF node.kind = "ClassDefNode"
              THEN [i \in 1..Len(methods) |-> methods[i].name]
              ELSE <<>>)
             \o DefNames(Tail(stmts))

\* C10: the Program returned lists one Function per top-level FunctionDef and
\* per method of each top-level ClassDef, in source order, then, if there is
\* any other top-level statement, one Function main without parameters,
\* last, whose body holds instructions only: the functions of a ClassDef are
\* in the program's function list and not in main's body.
C10_ProgramLayout ==
    ir_pc = "returned" =>
        LET funcs == program.functions
            others == \E i \in 1..Len(ast) :
                          ast[i].kind \notin {"FunctionDefNode", "ClassDefNode"}
            main == funcs[Len(funcs)]
        IN  /\ [i \in 1..Len(funcs) |-> funcs[i].name]
                   = DefNames(ast) \o (IF others THEN <<"main">> ELSE <<>>)
            /\ others =>
                   /\ main.params = <<>>
                   /\ \A i \in 1..Len(main.body) : main.body[i].kind # "IRFunction"

\* The functions lowered from definitions, wherever the driver has put them
LoweredFunctions ==
    SelectSeq(main_body, LAMBDA x : x.kind = "IRFunction")
    \o SelectSeq(functions, LAMBDA x : x.kind = "IRFunction" /\ x.name # "main")

DeclaresSelf(method) ==
    Len(method.parameters) >= 1 /\ method.parameters[1].name = "self"

\* C11: a ClassDef whose methods declare self as their first parameter is
\* lowered to one Function per method, whose parameter list is the list the
\* method declares, self occurring once: def __init__(self, n) gives
\* __init__(self, n) and def g(self) gives g(self).
C11_MethodParameters ==
    (/\ ir_pc = "returned" /\ Len(ast) = 1 /\ ast[1].kind = "ClassDefNode"
     /\ \A i \in 1..Len(ast[1].body) :
            ast[1].body[i].kind = "FunctionDefNode" /\ DeclaresSelf(ast[1].body[i])) =>
        LET methods == ast[1].body
        IN  /\ Len(LoweredFunctions) = Len(methods)
            /\ \A i \in 1..Len(methods) :
                   /\ LoweredFunctions[i].name = methods[i].name
                   /\ LoweredFunctions[i].params =
                          [k \in 1..Len(methods[i].parameters) |->
                               methods[i].parameters[k].name]
                   /\ Cardinality({k \in 1..Len(LoweredFunctions[i].params) :
                                       LoweredFunctions[i].params[k] = "self"}) = 1

RECURSIVE CallKinds(_)
RECURSIVE CallKindsOfAll(_)
\* The kinds of the call instructions of an instruction and of the
\* instructions it holds, in the order in which they were built
CallKinds(x) ==
    CASE x.kind = "IRFunction" -> CallKindsOfAll(x.body)
      [] x.kind = "IRBinaryOp" -> CallKinds(x.left) \o CallKinds(x.right)
      [] x.kind = "IRStore" -> CallKinds(x.source)
      [] x.kind = "IRReturn" -> CallKinds(x.value)
      [] x.kind \in {"IRCall", "IRConstructorCall"} -> <<x.kind>> \o CallKindsOfAll(x.args)
      [] x.kind = "IRMethodCall" -> (<<x.kind>> \o CallKinds(x.obj)) \o CallKindsOfAll(x.args)
      [] OTHER -> <<>>

CallKindsOfAll(xs) ==
    IF xs = <<>> THEN <<>> ELSE CallKinds(Head(xs)) \o CallKindsOfAll(Tail(xs))

RECURSIVE ExpectedCallKinds(_, _)
RECURSIVE ExpectedCallKindsOfAll(_, _)
\* The kinds the rules give to the calls of a node, in_class telling
\* whether the node is in the body of a ClassDef
ExpectedCallKinds(node, in_class) ==
    CASE node.kind = "FunctionCallNode" ->
             IF node.callable.kind = "AttributeNode"
             THEN (<<"IRMethodCall">> \o ExpectedCallKinds(node.callable.value, in_class))
                  \o ExpectedCallKindsOfAll(node.arguments, in_class)
             ELSE <<IF in_class THEN "IRConstructorCall" ELSE "IRCall">>
                  \o ExpectedCallKindsOfAll(node.arguments, in_class)
      [] node.kind = "BinaryOpNode" ->
             ExpectedCallKinds(node.left, in_class) \o ExpectedCallKinds(node.right, in_class)
      [] node.kind = "AssignmentNode" -> ExpectedCallKinds(node.value, in_class)
      [] node.kind = "ReturnNode" -> ExpectedCallKinds(node.value, in_class)
      [] node.kind = "FunctionDefNode" -> ExpectedCallKindsOfAll(node.body, in_class)
      [] node.kind = "ClassDefNode" ->
             ExpectedCallKindsOfAll(
                 SelectSeq(node.body, LAMBDA m : m.kind = "FunctionDefNode"), TRUE)
      [] OTHER -> <<>>

ExpectedCallKindsOfAll(nodes, in_class) ==
    IF nodes = <<>> THEN <<>>
    ELSE ExpectedCallKinds(Head(nodes), in_class)
         \o ExpectedCallKindsOfAll(Tail(nodes), in_class)

\* C12: whenever a top-level statement has been lowered, each call in it has
\* become a MethodCall if its callee is an Attribute, else a ConstructorCall
\* if it stands in the body of a ClassDef and a Call if it does not; and
\* current_class is what it was before the statement, so that calls of the
\* statements after a ClassDef are Calls again.
C12_CallKindByContext ==
    [][(InProgramLoop /\ stmt_index' = stmt_index + 1) =>
           LET added == SubSeq(functions', Len(functions) + 1, Len(functions'))
                        \o SubSeq(main_body', Len(main_body) + 1, Len(main_body'))
           IN  /\ CallKindsOfAll(added) = ExpectedCallKinds(stmt, FALSE)
               /\ current_class' = current_class
               /\ current_class = NoneV
      ]_vars

\* C12's case: an identifier call lowered after a class whose method holds
\* a constructor call
C12_Witness ==
    /\ stmt_index >= 2 /\ ast[1].kind = "ClassDefNode"
    /\ "IRConstructorCall" \in {CallKindsOfAll(main_body)[i] :
                                   i \in 1..Len(CallKindsOfAll(main_body))}
    /\ ast[stmt_index].kind = "FunctionCallNode"
    /\ ast[stmt_index].callable.kind = "IdentifierNode"
    /\ main_body[Len(main_body)].kind = "IRCall"

Unsupported ==
    {"ForNode", "PassNode", "BreakNode", "ContinueNode", "ImportNode",
     "FromImportNode", "ListNode", "DictNode", "SubscriptNode"}

RECURSIVE HoldsUnsupported(_)
\* Whether a node, or a node that lowering it visits, has no lowering
HoldsUnsupported(node) ==
    LET some(nodes) == \E i \in 1..Len(nodes) : HoldsUnsupported(nodes[i])
    IN  CASE node.kind \in Unsupported -> TRUE
          [] node.kind = "FunctionDefNode" -> some(node.body)
          [] node.kind = "ClassDefNode" ->
                 some(SelectSeq(node.body, LAMBDA m : m.kind = "FunctionDefNode"))
          [] node.kind = "IfNode" ->
                 HoldsUnsupported(node.condition) \/ some(node.then_body)
                 \/ some(node.else_body)
          [] node.kind = "WhileNode" -> HoldsUnsupported(node.condition) \/ some(node.body)
          [] node.kind = "AssignmentNode" ->
                 HoldsUnsupported(node.value) \/ HoldsUnsupported(node.target)
          [] node.kind = "ReturnNode" -> HoldsUnsupported(node.value)
          [] node.kind = "BinaryOpNode" ->
                 HoldsUnsupported(node.left) \/ HoldsUnsupported(node.right)
          [] node.kind = "FunctionCallNode" ->
                 HoldsUnsupported(node.callable) \/ some(node.arguments)
          [] node.kind = "AttributeNode" -> HoldsUnsupported(node.value)
          [] OTHER -> FALSE

\* C20: when the statement being lowered holds a node that has no lowering
\* (in a function, a method, a block or an expression), the generation ends
\* with an exception: nothing is added for the statement to the functions
\* or to main, and no Program is returned afterwards.
C20_UnsupportedNodeRaises ==
    [][/\ (InProgramLoop /\ HoldsUnsupported(stmt)) =>
              /\ ir_pc' = "raised"
              /\ IsRaise(program')
              /\ functions' = functions
              /\ main_body' = main_body
       /\ ir_pc = "raised" => ir_pc' = "raised"
      ]_vars

\* C20's case: after a function and a statement were lowered, a node
\* without lowering in a block of the next statement has ended the generation
C20_Witness ==
    /\ ir_pc = "raised" /\ program = Raise("NotImplementedError")
    /\ stmt_index = 1 /\ Len(main_body) >= 1
    /\ ast[2].kind \in {"FunctionDefNode", "IfNode", "WhileNode", "ClassDefNode"}
    /\ HoldsUnsupported(ast[2])

(***************************************************************************)
(* FURTHER CLAIMS ABOUT THE LEXER (checked under SpecLex)                  *)
(***************************************************************************)
\* The indentation of the line at the cursor, and the cursor after it
LineIndent == count_indent(source, position, 0)

\* tokenize is at the start of a line that holds a token and is indented
\* less than the top of the stack
AtDedentLine ==
    /\ lex_pc = "loop" /\ position < Len(source) /\ at_line_start
    /\ peek(source, LineIndent.position) \notin {"\n", "#", NUL}
    /\ LineIndent.current_indent < indentation_levels[Len(indentation_levels)]

\* C18: at a line that holds a token and is indented less than the top of
\* the indentation stack, the lexer pops the stack down to the entry equal
\* to the line's indentation and emits one DEDENT per entry popped; when no
\* entry equals it, tokenize raises: no token is added, the lexer never
\* returns and END is never produced.
C18_DedentToMatchingLevel ==
    [][/\ AtDedentLine =>
              LET indent == LineIndent.current_indent
                  depth == Len(indentation_levels)
                  matching == {k \in 1..depth : indentation_levels[k] = indent}
              IN  IF matching # {}
                  THEN \E k \in matching :
                           /\ indentation_levels' = SubSeq(indentation_levels, 1, k)
                           /\ Len(tokens') >= Len(tokens) + (depth - k)
                           /\ SubSeq(tokens', 1, Len(tokens)) = tokens
                           /\ \A i \in 1..(depth - k) :
                                  tokens'[Len(tokens) + i] = Token("DEDENT", "")
                           /\ Count(tokens', "DEDENT") = Count(tokens, "DEDENT") + (depth - k)
                           /\ lex_pc' = "loop"
                  ELSE /\ lex_pc' = "raised"
                       /\ tokens' = tokens
       /\ lex_pc = "raised" => (lex_pc' = "raised" /\ Count(tokens', "END") = 0)
      ]_vars

\* C18's case: two levels were open, the next line matched neither them nor
\* the bottom, and tokenize raised after popping both
C18_Witness ==
    /\ lex_pc = "raised"
    /\ Count(tokens, "INDENT") = 2 /\ Count(tokens, "DEDENT") = 0
    /\ indentation_levels = <<0>>

\* A source that is one f-string whose text is made of letters
IsFString(src) ==
    /\ Len(src) >= 3
    /\ src[1] = "f" /\ src[2] = "\"" /\ src[Len(src)] = "\""
    /\ \A i \in 3..(Len(src) - 1) : isalpha(src[i])

RECURSIVE Joined(_)
Joined(chars) == IF chars = <<>> THEN "" ELSE Head(chars) \o Joined(Tail(chars))

\* C19: a string literal with the prefix f directly before its opening
\* quote is one STRING_LITERAL token that takes the prefix with it; no
\* IDENTIFIER token is emitted for the prefix letter.
C19_FStringIsOneToken ==
    (lex_pc \in {"done", "raised"} /\ IsFString(source)) =>
        /\ lex_pc = "done"
        /\ tokens = <<Token("STRING_LITERAL", Joined(SubSeq(source, 3, Len(source) - 1))),
                      Token("END", "")>>

(***************************************************************************)
(* CLAIMS ABOUT THE PARSER (checked under SpecParse)                       *)
(***************************************************************************)
Returned == parse_pc = "returned"

\* the parser's tree for prefix minus (0 - x) and for prefix not
IsPrefix(node) ==
    /\ node.kind = "BinaryOpNode"
    /\ \/ node.op = "not"
       \/ node.op = "-" /\ node.left.kind = "IntLiteralNode"

\* The precedence table: 0 assignment, 1 or, 2 and, 3 equality,
\* 4 comparison, 5 term, 6 factor, 7 unary, 8 power, 9 a name
LevelOfOperator(op) ==
    CASE op = "or" -> 1
      [] op = "and" -> 2
      [] op \in {"==", "!="} -> 3
      [] op \in {"<", ">", "<=", ">="} -> 4
      [] op \in {"+", "-"} -> 5
      [] op \in {"*", "/", "%"} -> 6
      [] op = "**" -> 8

Level(node) ==
    IF node.kind = "AssignmentNode" THEN 0
    ELSE IF node.kind # "BinaryOpNode" THEN 9
    ELSE IF IsPrefix(node) THEN 7
    ELSE LevelOfOperator(node.op)

Operand(node) == IF node.op = "not" THEN node.left ELSE node.right

\* the words of the text a tree stands for, left to right
RECURSIVE Yield(_)
Yield(node) ==
    IF node.kind = "AssignmentNode"
    THEN (Yield(node.target) \o <<"=">>) \o Yield(node.value)
    ELSE IF node.kind = "IdentifierNode" THEN <<node.name>>
    ELSE IF IsPrefix(node) THEN <<node.op>> \o Yield(Operand(node))
    ELSE (Yield(node.left) \o <<node.op>>) \o Yield(node.right)

\* every operand of an operator is of a level the table lets it take
\* without parentheses: a left-grouping operator takes its own level on
\* the left and only higher ones on the right; assignment takes any value
\* on the right and only higher levels on the left; ** takes a name on the
\* left and a prefix operator or a power on the right; a prefix operator
\* takes a prefix operator, a power or a name
RECURSIVE Grouped(_)
Grouped(node) ==
    IF node.kind = "AssignmentNode"
    THEN /\ Level(node.target) > 0
         /\ Grouped(node.target) /\ Grouped(node.value)
    ELSE IF node.kind = "IdentifierNode" THEN TRUE
    ELSE IF IsPrefix(node)
    THEN Level(Operand(node)) >= 7 /\ Grouped(Operand(node))
    ELSE IF node.op = "**"
    THEN /\ Level(node.left) > 8 /\ Level(node.right) >= 7
         /\ Grouped(node.left) /\ Grouped(node.right)
    ELSE /\ Level(node.left) >= Level(node) /\ Level(node.right) > Level(node)
         /\ Grouped(node.left) /\ Grouped(node.right)

Line(words) == Lex(words) \o <<NEWLINE, END>>
Name(n) == IdentifierNode(n)

\* the four groupings the precedence table is illustrated with
GroupingExamples ==
    /\ parser_tokens = Line(<<"a", "-", "b", "-", "c">>)
          => ast_nodes = <<BinaryOpNode("-", BinaryOpNode("-", Name("a"), Name("b")),
                                        Name("c"))>>
    /\ parser_tokens = Line(<<"a", "**", "b", "**", "c">>)
          => ast_nodes = <<BinaryOpNode("**", Name("a"),
                                        BinaryOpNode("**", Name("b"), Name("c")))>>
    /\ parser_tokens = Line(<<"a", "=", "b", "=", "c">>)
          => ast_nodes = <<AssignmentNode(Name("a"), AssignmentNode(Name("b"), Name("c")))>>
    /\ parser_tokens = Line(<<"-", "a", "**", "b">>)
          => ast_nodes = <<BinaryOpNode("-", IntLiteralNode(0),
                                        BinaryOpNode("**", Name("a"), Name("b")))>>

\* C13: an expression without parentheses over the binary and prefix
\* operators parses without error to one tree that reads back as the
\* input and whose every operator has operands of the levels the
\* precedence table allows: higher levels bind tighter, equal levels group
\* left to right, ** and assignment group right to left, and a prefix
\* minus before a power negates the whole power
C13_PrecedenceGrouping ==
    (Returned /\ parser_tokens \in ExpressionInputs) =>
        /\ errors_printed = 0
        /\ Len(ast_nodes) = 1
        /\ Line(Yield(ast_nodes[1])) = parser_tokens
        /\ Grouped(ast_nodes[1])
        /\ GroupingExamples

C13_Witness ==
    /\ Returned
    /\ parser_tokens = Line(<<"-", "a", "**", "b", "**", "c">>)
    /\ ast_nodes = <<BinaryOpNode("-", IntLiteralNode(0),
                                  BinaryOpNode("**", Name("a"),
                                               BinaryOpNode("**", Name("b"), Name("c"))))>>

\* the If of condition i in a chain of n elif clauses: its else_body holds
\* the If of the next elif clause, or the statements of the else clause
RECURSIVE ChainTree(_, _, _)
ChainTree(i, n, has_else) ==
    IfNode(Name(ConditionNames[i]), <<Name(BodyNames[i])>>,
           IF i <= n THEN <<ChainTree(i + 1, n, has_else)>>
           ELSE IF has_else THEN <<Name(BodyNames[n + 2])>>
           ELSE <<>>)

\* C14: an if chain with one or more elif clauses, with or without a
\* trailing else, parses without error to one If whose else_body holds a
\* single nested If per elif clause, the else clause being the else_body of
\* the innermost If
C14_ElifChainNests ==
    \A n \in 1..MaxElifs, has_else \in BOOLEAN, inline \in BOOLEAN :
        (Returned /\ parser_tokens = IfChain(n, has_else, inline)) =>
            /\ errors_printed = 0
            /\ ast_nodes = <<ChainTree(1, n, has_else)>>

\* C15: for each op of + - * /, the line `a op= e` parses to the same tree
\* as the line `a = a op ( e )`: Assignment(a, BinaryOp(op, a, E)) where E
\* is the tree of the whole of e, whatever operators e holds
C15_CompoundAssignmentLowering ==
    (Returned /\ parser_tokens \in CompoundInputs) =>
        /\ errors_printed = 0
        /\ Len(ast_nodes) = 2
        /\ ast_nodes[1] = ast_nodes[2]
        /\ ast_nodes[1].kind = "AssignmentNode"
        /\ ast_nodes[1].target = Name("a")
        /\ ast_nodes[1].value.kind = "BinaryOpNode"
        /\ ast_nodes[1].value.op = PlainOperator(parser_tokens[2].value)
        /\ ast_nodes[1].value.left = Name("a")
        /\ parser_tokens = CompoundInput(parser_tokens[2].value,
                                         Yield(ast_nodes[1].value.right))

C15_Witness ==
    /\ Returned
    /\ parser_tokens = CompoundInput("-=", <<"b", "or", "not", "c">>)
    /\ Len(ast_nodes) = 2
    /\ ast_nodes[2] = AssignmentNode(Name("a"),
                         BinaryOpNode("-", Name("a"),
                             BinaryOpNode("or", Name("b"),
                                 BinaryOpNode("not", Name("c"), NoneV))))

\* the arguments of a call text that are plain, as trees, in order
RECURSIVE Positional(_)
Positional(args) ==
    IF args = <<>> THEN <<>>
    ELSE (IF Len(args[1]) = 1 THEN <<Name(args[1][1])>> ELSE <<>>)
            \o Positional(Tail(args))

\* the arguments of a call text of the form name = value, as the pairs
\* (name, tree of the value)
Keywords(args) ==
    {<<args[i][1], Name(args[i][3])>> : i \in {j \in 1..Len(args) : Len(args[j]) = 3}}

\* C16: a call argument of the form name = value is recorded as a keyword
\* argument: it is not in the call's positional arguments and the keyword
\* map holds the value under the name; the other arguments stay positional
\* in source order
C16_KeywordArguments ==
    \A args \in SeqsUpTo(ArgumentTexts, MaxArgs) \ {<<>>} :
        (Returned /\ parser_tokens = CallInput(args)) =>
            /\ errors_printed = 0
            /\ Len(ast_nodes) = 1
            /\ ast_nodes[1].kind = "FunctionCallNode"
            /\ ast_nodes[1].callable = Name("f")
            /\ ast_nodes[1].arguments = Positional(args)
            /\ {ast_nodes[1].keyword_args[i] : i \in 1..Len(ast_nodes[1].keyword_args)}
                  = Keywords(args)

\* C17: after a top-level statement that raises a syntax error, no node is
\* appended for it and parsing resumes, so that the returned list holds
\* the trees of exactly the well-formed top-level statements, in source
\* order
C17_RecoveryKeepsLaterStatements ==
    (Returned /\ parser_tokens \in RecoveryInputs) =>
        \A p \in ChunkPrograms :
            parser_tokens = ChunkTokens(p) => ast_nodes = ChunkNodes(p)

(***************************************************************************)
(* CLAIMS ABOUT THE TREES THE PARSER BUILDS (checked under SpecParse)      *)
(***************************************************************************)
Elements(seq) == {seq[i] : i \in 1..Len(seq)}

\* the nodes a node holds in its fields (ast_nodes.py); a field that is
\* None holds no node
Children(node) ==
    CASE node.kind = "AssignmentNode" -> {node.target, node.value}
      [] node.kind = "BinaryOpNode" -> {node.left, node.right} \ {NoneV}
      [] node.kind = "FunctionCallNode" ->
            ({node.callable} \cup Elements(node.arguments))
                \cup {node.keyword_args[i][2] : i \in 1..Len(node.keyword_args)}
      [] node.kind = "AttributeNode" -> {node.value}
      [] node.kind = "SubscriptNode" -> {node.value, node.index}
      [] node.kind = "IfNode" ->
            ({node.condition} \cup Elements(node.then_body)) \cup Elements(node.else_body)
      [] node.kind = "WhileNode" -> {node.condition} \cup Elements(node.body)
      [] node.kind = "ForNode" -> {node.target, node.iterable} \cup Elements(node.body)
      [] node.kind = "FunctionDefNode" -> Elements(node.parameters) \cup Elements(node.body)
      [] node.kind = "ParameterNode" -> {node.default_value} \ {NoneV}
      [] node.kind = "ClassDefNode" -> Elements(node.bases) \cup Elements(node.body)
      [] node.kind = "ReturnNode" -> {node.value} \ {NoneV}
      [] node.kind = "ListNode" -> Elements(node.elements)
      [] node.kind = "DictNode" ->
            UNION {{node.items[i][1], node.items[i][2]} : i \in 1..Len(node.items)}
      [] OTHER -> {}

\* a node and every node below it
RECURSIVE Subtrees(_)
Subtrees(node) == {node} \cup UNION {Subtrees(child) : child \in Children(node)}

\* every node of the trees Parser.parse has appended so far
ParsedNodes == UNION {Subtrees(ast_nodes[i]) : i \in 1..Len(ast_nodes)}

\* C21: every Assignment node the parser produces, from `=` or from a
\* compound assignment, has an Identifier, an Attribute or a Subscript as
\* its target; a left-hand side that is any other expression yields no
\* Assignment node.
C21_AssignmentTargetIsLvalue ==
    \A node \in ParsedNodes :
        node.kind = "AssignmentNode"
            => node.target.kind \in {"IdentifierNode", "AttributeNode", "SubscriptNode"}

(***************************************************************************)
(* CLAIMS ABOUT THE IR GENERATOR, continued (checked under Spec)           *)
(***************************************************************************)
\* C22: IR generation treats the AST as read-only: after lowering any AST,
\* ClassDef nodes included, every node's fields, the parameter list of
\* every FunctionDef in particular, are the same as before.
C22_AstIsReadOnly == node_statements = ast

\* the kinds of the instructions of the IR
InstructionKinds ==
    {"IRBinaryOp", "IRUnaryOp", "IRStore", "IRLoad", "IRCall", "IRMethodCall",
     "IRConstructorCall", "IRReturn", "IRJump", "IRCondJump", "IRLabel"}

\* C25: every element of every IR Function body is an instruction: an
\* operand leaf (Const or Var), a nested Function and a nested list never
\* appear as body elements, also when a statement of the body is a bare
\* identifier or a literal.
C25_BodiesHoldInstructions ==
    \A body \in Bodies : \A i \in 1..Len(body) : body[i].kind \in InstructionKinds

\* the operators of a BinaryOp node
BinaryOps == {"+", "-", "*", "/", "%", "**", "==", "!=", "<", ">", "<=", ">=", "and", "or"}

\* C24: every BinaryOp node the parser produces has one of the binary
\* operators and two operand subtrees, neither of them None; a prefix
\* `not e` is a unary node with the single operand e, not a BinaryOp.
C24_BinaryOpHasTwoOperands ==
    \A node \in ParsedNodes :
        node.kind = "BinaryOpNode"
            => /\ node.op \in BinaryOps
               /\ node.left # NoneV
               /\ node.right # NoneV

\* C26: Parser.parse terminates on every token list that ends with END,
\* well-formed or not: each turn of its loop moves the cursor forward
\* inside the list or leaves it on END, so error recovery never loops on
\* the same token, and the loop is left in the end.
C26_ParseTerminates ==
    /\ [][parse_pc = "loop"
            => /\ parser_current' < Len(parser_tokens)
               /\ \/ parser_current' > parser_current
                  \/ peek_type(parser_tokens, parser_current') = "END"]_vars
    /\ <>(parse_pc = "returned")

\* parse has returned after recovering from more than one error and with
\* a node parsed
C26_Witness ==
    /\ Returned
    /\ errors_printed >= 2
    /\ ast_nodes # <<>>
    /\ peek_type(parser_tokens, parser_current) = "END"

(***************************************************************************)
(* CLAIMS ABOUT BLOCKS (checked under SpecParse)                           *)
(***************************************************************************)
\* the body words that are statements of their own
StatementWords == {"u", "v"}

\* C29: a blank or comment-only line between a block header and the first
\* line of its body does not change the parse: for COLON NEWLINE NEWLINE
\* INDENT s1 .. sn DEDENT parse_block returns the statement list
\* [s1 .. sn] it returns for COLON NEWLINE INDENT s1 .. sn DEDENT, and no
\* syntax error is reported.  Stated of the block inputs once the statement
\* that holds the block has been parsed.
C29_BlankLineKeepsBlock ==
    \A header \in HeaderTexts, blank \in 0..MaxBlankLines :
        \A body \in SeqsUpTo(StatementWords, 2) \ {<<>>} :
            parser_tokens = BlockInput(header, blank, body) /\ parser_current > 0
                => /\ ~parse_block(parser_tokens, Len(header)).raised
                   /\ parse_block(parser_tokens, Len(header)).val
                        = parse_block(BlockInput(header, 0, body), Len(header)).val
                   /\ parse_block(parser_tokens, Len(header)).val
                        = [i \in 1..Len(body) |-> IdentifierNode(body[i])]
                   /\ errors_printed = 0

\* C30: every node Parser.parse returns comes from a statement written at
\* top level: a statement inside the block of an if or a while is never a
\* top-level node, also when a syntax error occurred earlier inside that
\* block and the parser recovered.
C30_TopLevelNodesOnly ==
    parser_tokens \in BlockInputs
        => \A i \in 1..Len(ast_nodes) :
            ast_nodes[i] \notin {IdentifierNode(word) : word \in StatementWords}

(***************************************************************************)
(* CLAIMS ABOUT INDENTATION, continued (checked under SpecLex)             *)
(***************************************************************************)
\* the cursor is at the start of a line that holds, after its whitespace,
\* nothing, only a comment, or the end of the input
AtBlankLine ==
    /\ InLoop /\ at_line_start
    /\ peek(source, skip_whitespace(source, position)) \in {"\n", "#", NUL}

C28_StackIncreasesFromZero ==
    /\ Len(indentation_levels) >= 1
    /\ indentation_levels[1] = 0
    /\ \A i \in 1..(Len(indentation_levels) - 1) :
        indentation_levels[i] < indentation_levels[i + 1]

\* the stack has held three widths and a dedent has popped it to an inner
\* one of them
C28_Witness ==
    /\ lex_pc = "loop"
    /\ Len(indentation_levels) = 2
    /\ \E k \in 1..Len(tokens) :
        /\ tokens[k].type = "DEDENT"
        /\ Cardinality({i \in 1..(k - 1) : tokens[i].type = "INDENT"}) = 2
        /\ \A i \in 1..(k - 1) : tokens[i].type # "DEDENT"

\* C27: INDENT and DEDENT are emitted only at the start of a line: each is
\* the first token or follows a NEWLINE or a DEDENT, or is a DEDENT of the
\* final run before END; none is emitted between two tokens of one source
\* line after a triple-quoted string whose text holds a newline.
C27_IndentOnlyAtLineStart ==
    \A i \in 1..Len(tokens) :
        tokens[i].type \in {"INDENT", "DEDENT"}
            => \/ i = 1
               \/ tokens[i - 1].type \in {"NEWLINE", "DEDENT"}
               \/ /\ tokens[i].type = "DEDENT"
                  /\ lex_pc \in {"eof", "done"}
                  /\ \A j \in i..Len(tokens) : tokens[j].type \in {"DEDENT", "END"}

====
